---- MODULE Spec2Model ----
(***************************************************************************)
(* A model of the task-scheduler service: the Redis queue index           *)
(* (QueueManager), the job processor and worker loop, JobService and the  *)
(* orphan-job recovery loop, each translated from the TypeScript source.  *)
(*                                                                         *)
(* Every await in the source is a suspension point, so every call into    *)
(* PostgreSQL (a repository method) or Redis (one client command) is one  *)
(* atomic step and the steps of different tasks interleave freely.        *)
(*                                                                         *)
(* Time is a single clock `now` (Date.now(), in ms, counted from the      *)
(* start of the run); it advances by the Tick action.                     *)
(*                                                                         *)
(* Left out of the rows: fields no modelled operation reads (name,        *)
(* payload, hostname, pid, startedAt, processedCount, failedCount).       *)
(***************************************************************************)
EXTENDS Integers, Sequences, FiniteSets, TLC

(***************************************************************************)
(* Bounds of the model                                                     *)
(***************************************************************************)
\* jobs created through JobService.create in Spec
NJobs == 1
\* worker processes in Spec
NWorkers == 2
\* clock advances in Spec
MaxTicks == 1
\* job ids handed to the QueueManager in QSpec
NQJobs == 2
\* job ids handed to enqueueDelayed in RaceSpec
NRJobs == 2
\* concurrent promoteDelayedJobs executions in RaceSpec
NExecutors == 2
\* clock advances in RaceSpec
MaxRTicks == 1
\* clock advances in QSpec
MaxQTicks == 2
\* members of the delayed index at the start of PromoteSpec
NDelayed == 2
\* clock advances in PromoteSpec
MaxPTicks == 2
\* PROCESSING jobs beyond one findMany page in RecoverySpec
ExtraProcessing == 1
\* clock advances in RecoverySpec
MaxRecTicks == 1
\* clock advances in TwoRecoverySpec
MaxTwoRecTicks == 2
\* largest configured WEBHOOK_MAX_ATTEMPTS in HookSpec
MaxMaxAttempts == 3
\* clock advances in HookSpec
MaxHookTicks == 2

(***************************************************************************)
(* Program constants                                                       *)
(***************************************************************************)
Priorities == {"CRITICAL", "HIGH", "NORMAL", "LOW"}

PRIORITY_SCORES(p) ==
  CASE p = "CRITICAL" -> 0
    [] p = "HIGH"     -> 1000000
    [] p = "NORMAL"   -> 2000000
    [] p = "LOW"      -> 3000000

staleThresholdMs == 90000
recoveryDelayMs == 5000
maxDelay == 60000
multiplier == 2
\* findOrphanJobs reads one page of this many PROCESSING rows
limit == 100

\* a null column (workerId) and a null document (result, error)
NoWorker == 0
Null == "null"

Terminal == {"COMPLETED", "FAILED", "CANCELLED"}

VARIABLES
  now,         \* Date.now()
  ticks,       \* number of clock advances so far
  job,         \* table jobs: id -> row
  worker,      \* table workers: id -> row
  dlqRows,     \* table dead_letter_jobs, in insertion order
  ready,       \* sorted set scheduler:queue:priority, {[value, score]}
  delayed,     \* sorted set scheduler:queue:delayed, {[value, score]}
  processing,  \* hash scheduler:processing: jobId -> [workerId, startedAt]
  deadletter,  \* sorted set scheduler:queue:dlq
  cr,          \* JobService.create requests in flight: id -> position
  cancelReq,   \* JobService.cancel requests that passed their status check
  wk,          \* Worker.loop of each worker process: position and locals
  prom,        \* promoteDelayedJobs executions: position and locals
  rec,         \* OrphanJobRecovery.recover executions: position and locals
  hist,        \* observations of the run, read by the properties only
  webhookEvents, \* table webhook_events, in insertion order (id = position)
  hookp,       \* WebhookRetryProcessor.processRetries executions
  maxAttempts, \* WebhookDispatcher config.maxAttempts (WEBHOOK_MAX_ATTEMPTS)
  schedule,    \* table schedules: id -> row
  exec,        \* ScheduleExecutor.checkAndExecute executions
  api          \* service calls and process signals in flight: id -> locals

vars == <<now, ticks, job, worker, dlqRows, ready, delayed, processing,
          deadletter, cr, cancelReq, wk, prom, rec, hist,
          webhookEvents, hookp, maxAttempts, schedule, exec, api>>

hookVars == <<webhookEvents, hookp, maxAttempts>>
schedVars == <<schedule, exec>>
extVars == <<hookVars, schedVars, api>>

storeVars == <<job, worker, dlqRows>>
indexVars == <<ready, delayed, processing, deadletter>>

(***************************************************************************)
(* Redis sorted sets.  Members are ordered by score and, for equal        *)
(* scores, by the member string; a job id stands for its uuid string, a   *)
(* delayed member is the string "<jobId>:<priority>".                     *)
(***************************************************************************)
ZAdd(z, v, s) == {e \in z : e.value # v} \cup {[value |-> v, score |-> s]}

ZRem(z, v) == {e \in z : e.value # v}

ZMembers(z) == {e.value : e \in z}

\* the delayed member `${jobId}:${priority}` and its split(':')
DelayedMember(jobId, priority) == <<jobId, priority>>
MemberJobId(entry) == entry[1]
MemberPriority(entry) == entry[2]

ReadyBefore(a, b) ==
  \/ a.score < b.score
  \/ a.score = b.score /\ a.value <= b.value

\* "CRITICAL" < "HIGH" < "LOW" < "NORMAL" as strings
PriorityLex(p) ==
  CASE p = "CRITICAL" -> 0
    [] p = "HIGH"     -> 1
    [] p = "LOW"      -> 2
    [] p = "NORMAL"   -> 3

DelayedBefore(a, b) ==
  \/ a.score < b.score
  \/ /\ a.score = b.score
     /\ \/ MemberJobId(a.value) < MemberJobId(b.value)
        \/ /\ MemberJobId(a.value) = MemberJobId(b.value)
           /\ PriorityLex(MemberPriority(a.value)) <= PriorityLex(MemberPriority(b.value))

\* ZPOPMIN on the ready set: the entry that is removed
ZPopMinMax(z) == CHOOSE e \in z : \A f \in z : ReadyBefore(f, e)
ZPopMin(z) == CHOOSE e \in z : \A f \in z : ReadyBefore(e, f)

\* ZRANGEBYSCORE on the delayed set: the members in index order
ZRangeByScore(z, lo, hi) ==
  LET S == {e \in z : lo <= e.score /\ e.score <= hi}
      Rank(e) == Cardinality({f \in S : DelayedBefore(f, e)})
  IN  [i \in 1..Cardinality(S) |-> (CHOOSE e \in S : Rank(e) = i).value]

(***************************************************************************)
(* QueueManager                                                            *)
(***************************************************************************)
calculateScoreSubtract(priority, ts) == ts - PRIORITY_SCORES(priority)
calculateScore(priority, ts) == ts + PRIORITY_SCORES(priority)

\* enqueue: ZADD ready score jobId; the new value of the ready set
enqueue(rdy, jobId, priority, t) == ZAdd(rdy, jobId, calculateScore(priority, t))

\* enqueueDelayed: ZADD delayed scheduledAt "jobId:priority"
enqueueDelayed(dly, jobId, scheduledAt, priority) ==
  ZAdd(dly, DelayedMember(jobId, priority), scheduledAt)

\* markProcessing: HSET processing jobId {workerId, startedAt}
markProcessing(prc, jobId, workerId, t) ==
  [x \in DOMAIN prc \cup {jobId} |->
     IF x = jobId THEN [workerId |-> workerId, startedAt |-> t] ELSE prc[x]]

\* markCompleted: HDEL processing jobId
markCompleted(prc, jobId) == [x \in DOMAIN prc \ {jobId} |-> prc[x]]

\* requeue, first command: enqueueDelayed at Date.now() + delayMs
requeueAdd(dly, jobId, priority, delayMs, t) ==
  enqueueDelayed(dly, jobId, t + delayMs, priority)

\* moveToDLQ, first command: ZADD dlq now {jobId, reason, failedAt}
moveToDLQAdd(dlq, jobId, reason, t) ==
  dlq \cup {[value |-> [jobId |-> jobId, reason |-> reason, failedAt |-> t],
             score |-> t]}

EmptyFn == [x \in {} |-> 0]

\* the stores and tasks of the webhook pipeline and of the schedule executor
\* when none of them is in use: no row, no task, the default maxAttempts
DefaultMaxAttempts == 3
ExtIdle ==
  /\ webhookEvents = <<>>
  /\ hookp = EmptyFn
  /\ maxAttempts = DefaultMaxAttempts
  /\ schedule = EmptyFn
  /\ exec = EmptyFn
  /\ api = EmptyFn

(***************************************************************************)
(* The clock                                                               *)
(***************************************************************************)
TickBy(d, max) ==
  /\ ticks < max
  /\ now' = now + d
  /\ ticks' = ticks + 1

(***************************************************************************)
(* QueueManager.promoteDelayedJobs, one step per Redis command.           *)
(* prom[e] = [pc, readyJobs, i]: the entries read and the loop position.  *)
(***************************************************************************)
PromIdle == [pc |-> "idle", readyJobs |-> <<>>, i |-> 0]

\* const now = Date.now(); readyJobs = ZRANGEBYSCORE delayed 0 now
promoteRead(e) ==
  /\ prom[e].pc = "idle"
  /\ LET readyJobs == ZRangeByScore(delayed, 0, now)
     IN  prom' = [prom EXCEPT ![e] =
                    IF Len(readyJobs) = 0
                    THEN PromIdle
                    ELSE [pc |-> "enqueue", readyJobs |-> readyJobs, i |-> 1]]
  /\ UNCHANGED <<ready, delayed>>

\* await this.enqueue(jobId, priority)
promoteEnqueue(e) ==
  /\ prom[e].pc = "enqueue"
  /\ LET entry == prom[e].readyJobs[prom[e].i]
     IN  ready' = enqueue(ready, MemberJobId(entry), MemberPriority(entry), now)
  /\ prom' = [prom EXCEPT ![e].pc = "zrem"]
  /\ UNCHANGED delayed

\* the loop body without the ZREM
promoteRemSkipped(e) ==
  /\ prom[e].pc = "zrem"
  /\ delayed' = delayed
  /\ prom' = [prom EXCEPT ![e] =
                IF prom[e].i = Len(prom[e].readyJobs)
                THEN PromIdle
                ELSE [@ EXCEPT !.pc = "enqueue", !.i = @ + 1]]
  /\ UNCHANGED ready

\* await this.client.zRem(DELAYED, entry); after the last entry the call
\* returns readyJobs.length
promoteRem(e) ==
  /\ prom[e].pc = "zrem"
  /\ delayed' = ZRem(delayed, prom[e].readyJobs[prom[e].i])
  /\ prom' = [prom EXCEPT ![e] =
                IF prom[e].i = Len(prom[e].readyJobs)
                THEN PromIdle
                ELSE [@ EXCEPT !.pc = "enqueue", !.i = @ + 1]]
  /\ UNCHANGED ready

\* the call of executor e returns in this step
PromoteReturns(e) ==
  \/ prom[e].pc = "idle" /\ Len(ZRangeByScore(delayed, 0, now)) = 0
  \/ prom[e].pc = "zrem" /\ prom[e].i = Len(prom[e].readyJobs)

(***************************************************************************)
(* The QueueManager driven through its interface.  Each job id is handed  *)
(* to enqueue or enqueueDelayed once (as JobService.create does),         *)
(* promoteDelayedJobs runs one Redis command per step, and dequeue pops.  *)
(* hist records, per job id, the priority it was submitted with, the time *)
(* of its last ZADD to the ready set, how often dequeue returned it and   *)
(* how many promoteDelayedJobs calls counted it in their return value.    *)
(*                                                                         *)
(* QSpec has one promoter and is used for the ordering of the ready set;  *)
(* RaceSpec has several promoters whose commands interleave.              *)
(***************************************************************************)
QPriorities == {"CRITICAL", "LOW"}
QDurations == {1, 3000000}
QDelays == {1}

QHist0(jobs) ==
  [prio |-> [j \in jobs |-> "none"],
   enqAt |-> [j \in jobs |-> -1],
   delivered |-> [j \in jobs |-> 0],
   counted |-> [j \in jobs |-> 0]]

QInitWith(jobs, executors) ==
  /\ now = 0
  /\ ticks = 0
  /\ job = EmptyFn
  /\ worker = EmptyFn
  /\ dlqRows = <<>>
  /\ ready = {}
  /\ delayed = {}
  /\ processing = EmptyFn
  /\ deadletter = {}
  /\ cr = EmptyFn
  /\ cancelReq = {}
  /\ wk = EmptyFn
  /\ prom = [e \in executors |-> PromIdle]
  /\ rec = EmptyFn
  /\ hist = QHist0(jobs)
  /\ ExtIdle

QOther == <<job, worker, dlqRows, processing, deadletter, cr, cancelReq, wk, rec,
            extVars>>

\* queueManager.enqueue(job.id, job.priority) for a new job
QEnqueue(j, p) ==
  /\ hist.prio[j] = "none"
  /\ ready' = enqueue(ready, j, p, now)
  /\ hist' = [hist EXCEPT !.prio[j] = p, !.enqAt[j] = now]
  /\ UNCHANGED <<now, ticks, delayed, prom>>
  /\ UNCHANGED QOther

\* queueManager.enqueueDelayed(job.id, job.scheduledAt, job.priority)
QEnqueueDelayed(j, d, p) ==
  /\ hist.prio[j] = "none"
  /\ delayed' = enqueueDelayed(delayed, j, now + d, p)
  /\ hist' = [hist EXCEPT !.prio[j] = p]
  /\ UNCHANGED <<now, ticks, ready, prom>>
  /\ UNCHANGED QOther

\* the ready set after dequeue(): ZPOPMIN
dequeue(rdy) == rdy \ {ZPopMin(rdy)}

\* queueManager.dequeue() on a non-empty ready set
QDequeue ==
  /\ ready # {}
  /\ ready' = dequeue(ready)
  /\ hist' = [hist EXCEPT !.delivered =
                [j \in DOMAIN @ |-> IF j \in ZMembers(ready) \ ZMembers(ready')
                                    THEN @[j] + 1 ELSE @[j]]]
  /\ UNCHANGED <<now, ticks, delayed, prom>>
  /\ UNCHANGED QOther

QPromoteRead(e) ==
  /\ promoteRead(e)
  /\ UNCHANGED <<now, ticks, hist, extVars>>
  /\ UNCHANGED QOther

QPromoteEnqueue(e) ==
  /\ promoteEnqueue(e)
  /\ LET entry == prom[e].readyJobs[prom[e].i]
     IN  hist' = [hist EXCEPT !.enqAt[MemberJobId(entry)] = now]
  /\ UNCHANGED <<now, ticks>>
  /\ UNCHANGED QOther

QPromoteRem(e) ==
  /\ promoteRem(e)
  /\ hist' = IF PromoteReturns(e)
             THEN [hist EXCEPT !.counted =
                     [j \in DOMAIN @ |->
                        IF \E k \in 1..Len(prom[e].readyJobs) :
                             MemberJobId(prom[e].readyJobs[k]) = j
                        THEN @[j] + 1 ELSE @[j]]]
             ELSE hist
  /\ UNCHANGED <<now, ticks>>
  /\ UNCHANGED QOther

QTick(d) ==
  /\ TickBy(d, MaxQTicks)
  /\ UNCHANGED <<ready, delayed, prom, hist, extVars>>
  /\ UNCHANGED QOther

QInit == QInitWith(1..NQJobs, {1})

QNext ==
  \/ \E j \in DOMAIN hist.prio, p \in QPriorities : QEnqueue(j, p)
  \/ \E j \in DOMAIN hist.prio, d \in QDelays, p \in QPriorities : QEnqueueDelayed(j, d, p)
  \/ QDequeue
  \/ \E e \in DOMAIN prom : QPromoteRead(e)
  \/ \E e \in DOMAIN prom : QPromoteEnqueue(e)
  \/ \E e \in DOMAIN prom : QPromoteRem(e)
  \/ \E d \in QDurations : QTick(d)

QSpec == QInit /\ [][QNext]_vars

RaceTick ==
  /\ TickBy(1, MaxRTicks)
  /\ UNCHANGED <<ready, delayed, prom, hist, extVars>>
  /\ UNCHANGED QOther

RaceInit == QInitWith(1..NRJobs, 1..NExecutors)

RaceNext ==
  \/ \E j \in DOMAIN hist.prio : QEnqueueDelayed(j, 1, "NORMAL")
  \/ QDequeue
  \/ \E e \in DOMAIN prom : QPromoteRead(e)
  \/ \E e \in DOMAIN prom : QPromoteEnqueue(e)
  \/ \E e \in DOMAIN prom : QPromoteRem(e)
  \/ RaceTick

RaceSpec == RaceInit /\ [][RaceNext]_vars

(***************************************************************************)
(* Ordering of the ready set (QSpec)                                       *)
(***************************************************************************)
InReady(j) == j \in ZMembers(ready)

\* some step removes x from the ready set and leaves y in it: dequeue
\* returned x while y was waiting
PoppedBefore(x, y) ==
  /\ InReady(x) /\ InReady(y)
  /\ x \notin ZMembers(ready')
  /\ y \in ZMembers(ready')

C7_BoundedWindow ==
  [][\A a, b \in DOMAIN hist.prio :
       (/\ hist.prio[a] = "LOW" /\ hist.prio[b] = "CRITICAL"
        /\ hist.enqAt[a] <= hist.enqAt[b]
        /\ hist.enqAt[b] < hist.enqAt[a] + PRIORITY_SCORES("LOW"))
         => ~PoppedBefore(a, b)]_vars

\* B = CRITICAL enqueued 1 ms after A = LOW was returned first
C7_Witness ==
  \E a, b \in DOMAIN hist.prio :
    /\ hist.prio[a] = "LOW" /\ hist.prio[b] = "CRITICAL"
    /\ hist.enqAt[a] >= 0 /\ hist.enqAt[b] = hist.enqAt[a] + 1
    /\ hist.delivered[b] = 1 /\ hist.delivered[a] = 0
    /\ InReady(a)

\* C8: two jobs of the same priority whose (last) enqueue times are
\* t1 < t2: dequeue never returns the second while the first is waiting.
C8_FifoWithinBand ==
  [][\A a, b \in DOMAIN hist.prio :
       (/\ hist.prio[a] = hist.prio[b]
        /\ hist.enqAt[a] < hist.enqAt[b])
         => ~PoppedBefore(b, a)]_vars

\* the earlier of two jobs of one priority was returned, the later waits
C8_Witness ==
  \E a, b \in DOMAIN hist.prio :
    /\ a # b /\ hist.prio[a] = hist.prio[b] /\ hist.prio[a] # "none"
    /\ hist.enqAt[a] >= 0 /\ hist.enqAt[a] < hist.enqAt[b]
    /\ hist.delivered[a] = 1 /\ hist.delivered[b] = 0
    /\ InReady(b)

(***************************************************************************)
(* Concurrent promotion (RaceSpec)                                         *)
(***************************************************************************)
\* C9: with the commands of several promoteDelayedJobs calls interleaved,
\* a delayed member that was submitted once is delivered by dequeue at
\* most once and is counted as promoted by at most one call.
C9_PromotedOnce ==
  \A j \in DOMAIN hist.prio :
    /\ hist.delivered[j] <= 1
    /\ hist.counted[j] <= 1

\* the part of C9 about delivery alone
C9_DeliveredOnce == \A j \in DOMAIN hist.prio : hist.delivered[j] <= 1

(***************************************************************************)
(* PromoteSpec: successive promoteDelayedJobs calls of one executor on a  *)
(* delayed set that nothing else writes.  Init draws the content of the   *)
(* delayed set; the clock may advance between and during the calls.       *)
(* hist.last and hist.prev are the two latest calls: the time the call    *)
(* took as `now`, the delayed set it read and the entries it promotes.    *)
(***************************************************************************)
PFireTimes == {1, 2, 3}
PPriorities == {"HIGH", "LOW"}

NoCall == [at |-> -1, before |-> {}, entries |-> {}]

PInit ==
  /\ now = 0
  /\ ticks = 0
  /\ job = EmptyFn
  /\ worker = EmptyFn
  /\ dlqRows = <<>>
  /\ ready = {}
  /\ \E content \in [1..NDelayed -> {0} \cup PFireTimes], p \in PPriorities :
       delayed = {[value |-> DelayedMember(j, p), score |-> content[j]] :
                    j \in {k \in 1..NDelayed : content[k] # 0}}
  /\ processing = EmptyFn
  /\ deadletter = {}
  /\ cr = EmptyFn
  /\ cancelReq = {}
  /\ wk = EmptyFn
  /\ prom = [e \in {1} |-> PromIdle]
  /\ rec = EmptyFn
  /\ hist = [prev |-> NoCall, last |-> NoCall]
  /\ ExtIdle

PPromoteRead(e) ==
  /\ promoteRead(e)
  /\ LET readyJobs == ZRangeByScore(delayed, 0, now)
         call == [at |-> now,
                  before |-> delayed,
                  entries |-> {m \in delayed :
                                 \E k \in 1..Len(readyJobs) : readyJobs[k] = m.value}]
     IN  hist' = [prev |-> hist.last, last |-> call]
  /\ UNCHANGED <<now, ticks>>
  /\ UNCHANGED QOther

PPromoteEnqueue(e) ==
  /\ promoteEnqueue(e)
  /\ UNCHANGED <<now, ticks, hist, extVars>>
  /\ UNCHANGED QOther

PPromoteRem(e) ==
  /\ promoteRem(e)
  /\ UNCHANGED <<now, ticks, hist, extVars>>
  /\ UNCHANGED QOther

PTick ==
  /\ TickBy(1, MaxPTicks)
  /\ UNCHANGED <<ready, delayed, prom, hist, extVars>>
  /\ UNCHANGED QOther

PNext ==
  \/ \E e \in DOMAIN prom : PPromoteRead(e)
  \/ \E e \in DOMAIN prom : PPromoteEnqueue(e)
  \/ \E e \in DOMAIN prom : PPromoteRem(e)
  \/ PTick

PromoteSpec == PInit /\ [][PNext]_vars

TwoCalls == hist.prev # NoCall /\ hist.last # NoCall

\* C10, as claimed: the second of two successive calls promotes zero
\* members, whatever the delayed set holds and whenever the calls happen.
C10_SecondPromotesNone ==
  TwoCalls => Cardinality(hist.last.entries) = 0

\* C10, amended: the second call promotes exactly the members whose fire
\* time is after the first call's time and not after the second call's
\* time; it promotes none when no member came due between the two calls.
C10_SecondPromotesNewlyDue ==
  TwoCalls =>
    /\ hist.last.entries =
         {m \in hist.last.before :
            hist.prev.at < m.score /\ m.score <= hist.last.at}
    /\ hist.last.entries \cap hist.prev.entries = {}
    /\ hist.last.at = hist.prev.at => hist.last.entries = {}

\* a first call promoted members, a later second call found none due
\* although a member is still waiting in the delayed set
C10_Witness ==
  /\ TwoCalls
  /\ hist.prev.entries # {}
  /\ hist.last.entries = {}
  /\ hist.last.before # {}
  /\ prom[1].pc = "idle"

(***************************************************************************)
(* The durable store: rows of the jobs and workers tables                 *)
(***************************************************************************)
\* jobRepository.create: the row of a new job
NewJobRow(input, t) ==
  [status |-> "PENDING",
   priority |-> input.priority,
   maxRetries |-> input.maxRetries,
   retryCount |-> 0,
   retryDelay |-> input.retryDelay,
   scheduledAt |-> input.scheduledAt,
   hasHandler |-> input.hasHandler,
   webhookUrl |-> input.webhookUrl,
   workerId |-> NoWorker,
   result |-> Null,
   error |-> Null,
   completedAt |-> 0,
   createdAt |-> t]

\* workerRepository.register: the row of a new worker
NewWorkerRow(t) ==
  [status |-> "active", lastHeartbeat |-> t, activeJobs |-> 0, stoppedAt |-> 0]

\* jobRepository.findMany({page: 1, limit, status}): the newest `lim` rows
\* of that status (orderBy createdAt desc, take limit)
findMany(status, lim) ==
  LET match == {j \in DOMAIN job : job[j].status = status}
      Newer(a, b) == \/ job[a].createdAt > job[b].createdAt
                     \/ job[a].createdAt = job[b].createdAt /\ a > b
  IN  {j \in match : Cardinality({k \in match : Newer(k, j)}) < lim}

\* workerRepository.findStaleWorkers(thresholdMs)
findStaleWorkers(thresholdMs) ==
  {w \in DOMAIN worker :
     /\ worker[w].status = "active"
     /\ worker[w].lastHeartbeat < now - thresholdMs}

\* a set of ids as the list a query returns
RECURSIVE SeqOf(_)
SeqOf(S) ==
  IF S = {} THEN <<>>
  ELSE LET x == CHOOSE y \in S : \A z \in S : y <= z
       IN  <<x>> \o SeqOf(S \ {x})

RECURSIVE Pow(_, _)
Pow(b, n) == IF n = 0 THEN 1 ELSE b * Pow(b, n - 1)

Min(a, b) == IF a < b THEN a ELSE b

\* JobProcessor.calculateRetryDelay
calculateRetryDelayUncapped(retryCount, baseDelay) ==
  baseDelay * Pow(multiplier, retryCount)
calculateRetryDelay(retryCount, baseDelay) ==
  Min(baseDelay * Pow(multiplier, retryCount), maxDelay)

\* Worker.isProcessableStatus
isProcessableStatusAny(status) == TRUE
isProcessableStatus(status) == status \in {"QUEUED", "RETRYING"}

(***************************************************************************)
(* JobService.create: three awaits                                         *)
(***************************************************************************)
\* const job = await this.jobRepository.create(input)
CreateRow(input) ==
  LET id == Cardinality(DOMAIN job) + 1
  IN  /\ id <= NJobs
      /\ job' = [x \in DOMAIN job \cup {id} |->
                   IF x = id THEN NewJobRow(input, now) ELSE job[x]]
      /\ cr' = [x \in DOMAIN cr \cup {id} |->
                  IF x = id
                  THEN [pc |-> "enqueue", priority |-> input.priority,
                        scheduledAt |-> input.scheduledAt]
                  ELSE cr[x]]
      /\ UNCHANGED <<now, ticks, worker, dlqRows, ready, delayed, processing,
                     deadletter, cancelReq, wk, prom, rec, hist, extVars>>

\* if (job.scheduledAt && job.scheduledAt > new Date()) enqueueDelayed(...)
\* else enqueue(...); cr[j] holds the row as create returned it
CreateEnqueue(j) ==
  /\ j \in DOMAIN cr /\ cr[j].pc = "enqueue"
  /\ LET scheduledAt == cr[j].scheduledAt
         priority == cr[j].priority
     IN  IF scheduledAt # 0 /\ scheduledAt > now
         THEN /\ delayed' = enqueueDelayed(delayed, j, scheduledAt, priority)
              /\ ready' = ready
         ELSE /\ ready' = enqueue(ready, j, priority, now)
              /\ delayed' = delayed
  /\ cr' = [cr EXCEPT ![j].pc = "setQueued"]
  /\ UNCHANGED <<now, ticks, job, worker, dlqRows, processing, deadletter,
                 cancelReq, wk, prom, rec, hist, extVars>>

\* return this.jobRepository.updateStatus(job.id, 'QUEUED')
CreateSetQueued(j) ==
  /\ j \in DOMAIN cr /\ cr[j].pc = "setQueued"
  /\ job' = [job EXCEPT ![j].status = "QUEUED"]
  /\ cr' = [cr EXCEPT ![j].pc = "done"]
  /\ UNCHANGED <<now, ticks, worker, dlqRows, ready, delayed, processing,
                 deadletter, cancelReq, wk, prom, rec, hist, extVars>>

(***************************************************************************)
(* JobService.cancel: the status check and the write are two awaits       *)
(***************************************************************************)
\* findById, then the check of job.status
CancelCheck(j) ==
  /\ j \in DOMAIN job
  /\ j \notin cancelReq
  /\ job[j].status \in {"PENDING", "QUEUED", "RETRYING"}
  /\ cancelReq' = cancelReq \cup {j}
  /\ UNCHANGED <<now, ticks, job, worker, dlqRows, ready, delayed, processing,
                 deadletter, cr, wk, prom, rec, hist, extVars>>

\* jobRepository.cancel(id)
CancelWrite(j) ==
  /\ j \in cancelReq
  /\ job' = [job EXCEPT ![j].status = "CANCELLED", ![j].completedAt = now]
  /\ cancelReq' = cancelReq \ {j}
  /\ UNCHANGED <<now, ticks, worker, dlqRows, ready, delayed, processing,
                 deadletter, cr, wk, prom, rec, hist, extVars>>

(***************************************************************************)
(* Worker.start, Worker.loop, Worker.processJob and JobProcessor.process. *)
(* wk[w] = [pc, jobId, job]: the position of the worker's main loop, the  *)
(* popped id and the row as findById returned it (the `job` argument of   *)
(* process, which the processor never reloads).                            *)
(***************************************************************************)
NoJob == [retryCount |-> 0, maxRetries |-> 0, retryDelay |-> 0,
          priority |-> "NORMAL", hasHandler |-> FALSE, webhookUrl |-> FALSE,
          workerId |-> NoWorker]

Snapshot(row) ==
  [retryCount |-> row.retryCount, maxRetries |-> row.maxRetries,
   retryDelay |-> row.retryDelay, priority |-> row.priority,
   hasHandler |-> row.hasHandler, webhookUrl |-> row.webhookUrl,
   workerId |-> row.workerId]

\* dispatch, eventId, attempts: the locals of WebhookDispatcher.dispatch
\* (its status argument, the id of the row it created, the attempts that
\* markFailed read)
WkOff == [pc |-> "off", jobId |-> 0, job |-> NoJob,
          dispatch |-> "none", eventId |-> 0, attempts |-> 0]
WkDequeue == [WkOff EXCEPT !.pc = "dequeue"]

HandlerError == "handler error"
NoHandlerError == "No handler registered for job type"
RecoveredError == "Worker died - job recovered automatically"

\* this.running of worker w: true from start until stop() has begun (a
\* shutdown signal is a call api[r] with op "stop")
Running(w) ==
  \A r \in DOMAIN api :
    (api[r].op = "stop" /\ api[r].id = w) => api[r].pc = "idle"

\* Worker.start: workerRepository.register, then the loop starts
WStart(w) ==
  /\ wk[w].pc = "off"
  /\ worker' = [x \in DOMAIN worker \cup {w} |->
                  IF x = w THEN NewWorkerRow(now) ELSE worker[x]]
  /\ wk' = [wk EXCEPT ![w] = WkDequeue]
  /\ UNCHANGED <<now, ticks, job, dlqRows, ready, delayed, processing,
                 deadletter, cr, cancelReq, prom, rec, hist, extVars>>

\* the heartbeat timer: workerRepository.updateHeartbeat
WHeartbeat(w) ==
  /\ wk[w].pc \notin {"off", "exited"}
  /\ Running(w)
  /\ worker[w].lastHeartbeat < now
  /\ worker' = [worker EXCEPT ![w].lastHeartbeat = now]
  /\ UNCHANGED <<now, ticks, job, dlqRows, ready, delayed, processing,
                 deadletter, cr, cancelReq, wk, prom, rec, hist, extVars>>

\* const jobId = await this.queueManager.dequeue(), a job was waiting
WDequeue(w) ==
  /\ wk[w].pc = "dequeue"
  /\ Running(w)
  /\ ready # {}
  /\ ready' = dequeue(ready)
  /\ wk' = [wk EXCEPT ![w] =
              [WkDequeue EXCEPT !.pc = "load",
                                !.jobId = ZPopMin(ready).value]]
  /\ UNCHANGED <<now, ticks, job, worker, dlqRows, delayed, processing,
                 deadletter, cr, cancelReq, prom, rec, hist, extVars>>

\* const job = await this.jobRepository.findById(jobId); a missing row or
\* a status that is not processable drops the reference
WLoad(w) ==
  /\ wk[w].pc = "load"
  /\ LET jobId == wk[w].jobId
     IN  wk' = [wk EXCEPT ![w] =
                  IF jobId \in DOMAIN job /\ isProcessableStatus(job[jobId].status)
                  THEN [WkDequeue EXCEPT !.pc = "setActive",
                                         !.jobId = jobId,
                                         !.job = Snapshot(job[jobId])]
                  ELSE WkDequeue]
  /\ UNCHANGED <<now, ticks, job, worker, dlqRows, ready, delayed, processing,
                 deadletter, cr, cancelReq, prom, rec, hist, extVars>>

\* processJob: await this.workerRepository.setActiveJobs(this.workerId, 1)
WSetActive(w) ==
  /\ wk[w].pc = "setActive"
  /\ worker' = [worker EXCEPT ![w].activeJobs = 1]
  /\ wk' = [wk EXCEPT ![w].pc = "process"]
  /\ UNCHANGED <<now, ticks, job, dlqRows, ready, delayed, processing,
                 deadletter, cr, cancelReq, prom, rec, hist, extVars>>

\* process: the handler exists; update(job.id, {status: 'PROCESSING',
\* startedAt, workerId})
WSetProcessing(w) ==
  /\ wk[w].pc = "process"
  /\ wk[w].job.hasHandler
  /\ job' = [job EXCEPT ![wk[w].jobId].status = "PROCESSING",
                        ![wk[w].jobId].workerId = w]
  /\ wk' = [wk EXCEPT ![w].pc = "markProcessing"]
  /\ UNCHANGED <<now, ticks, worker, dlqRows, ready, delayed, processing,
                 deadletter, cr, cancelReq, prom, rec, hist, extVars>>

\* process: await this.queueManager.markProcessing(job.id, workerId)
WMarkProcessing(w) ==
  /\ wk[w].pc = "markProcessing"
  /\ processing' = markProcessing(processing, wk[w].jobId, w, now)
  /\ wk' = [wk EXCEPT ![w].pc = "handler"]
  /\ UNCHANGED <<now, ticks, job, worker, dlqRows, ready, delayed,
                 deadletter, cr, cancelReq, prom, rec, hist, extVars>>

\* handleSuccess and handleFailure after their writes: with job.webhookUrl
\* set they call webhookDispatcher.dispatch(job, status, ...), otherwise
\* process returns
AfterOutcome(task, status) ==
  IF task.job.webhookUrl
  THEN [task EXCEPT !.pc = "hookCreate", !.dispatch = status]
  ELSE [task EXCEPT !.pc = "finish"]

\* the positions at which handleError is entered: the handler threw, or
\* handleSuccess threw inside the try block of process (a store or index
\* command, or the webhook dispatch)
HandleErrorPcs == {"handler", "infraThrew", "webhookThrew"}

\* handleSuccess: the data of jobRepository.update(job.id, {status:
\* 'COMPLETED', result, completedAt}); prisma updates the row `where id`
completedUpdate(row, t) ==
  [row EXCEPT !.status = "COMPLETED", !.result = "ok", !.completedAt = t]

\* handleError: if (currentRetry < maxRetries) scheduleRetry else handleFailure
shouldRetry(snapshot) == snapshot.retryCount < snapshot.maxRetries

\* scheduleRetry(job, currentRetry + 1, errorMessage): the data of the update
retryUpdateSameCount(row, snapshot, msg) ==
  [row EXCEPT !.status = "RETRYING", !.retryCount = snapshot.retryCount,
              !.error = msg]
retryUpdate(row, snapshot, msg) ==
  [row EXCEPT !.status = "RETRYING", !.retryCount = snapshot.retryCount + 1,
              !.error = msg]

\* handleFailure: the data of the update
failedUpdateRetrying(row, msg, t) ==
  [row EXCEPT !.status = "RETRYING", !.error = msg, !.completedAt = t]
failedUpdate(row, msg, t) ==
  [row EXCEPT !.status = "FAILED", !.error = msg, !.completedAt = t]

\* handleFailure: the row given to deadLetterRepository.create
deadLetterRow(jobId, snapshot, msg, t) ==
  [originalJobId |-> jobId,
   jobPriority |-> snapshot.priority,
   failureReason |-> msg,
   failureCount |-> snapshot.retryCount + 1,
   workerId |-> snapshot.workerId,
   failedAt |-> t]

\* the handler resolved; handleSuccess: update to COMPLETED
WHandleSuccess(w) ==
  /\ wk[w].pc = "handler"
  /\ job' = [job EXCEPT ![wk[w].jobId] = completedUpdate(@, now)]
  /\ wk' = [wk EXCEPT ![w].pc = "successMark"]
  /\ UNCHANGED <<now, ticks, worker, dlqRows, ready, delayed, processing,
                 deadletter, cr, cancelReq, prom, rec, hist, extVars>>

\* handleSuccess: await this.queueManager.markCompleted(job.id); then
\* dispatch(job, 'completed', result) if job.webhookUrl is set
WSuccessMark(w) ==
  /\ wk[w].pc = "successMark"
  /\ processing' = markCompleted(processing, wk[w].jobId)
  /\ wk' = [wk EXCEPT ![w] = AfterOutcome(@, "completed")]
  /\ UNCHANGED <<now, ticks, job, worker, dlqRows, ready, delayed,
                 deadletter, cr, cancelReq, prom, rec, hist, extVars>>

\* the handler threw; handleError -> scheduleRetry: update to RETRYING
WScheduleRetry(w) ==
  /\ wk[w].pc \in HandleErrorPcs
  /\ shouldRetry(wk[w].job)
  /\ job' = [job EXCEPT ![wk[w].jobId] = retryUpdate(@, wk[w].job, HandlerError)]
  /\ wk' = [wk EXCEPT ![w].pc = "requeueAdd"]
  /\ UNCHANGED <<now, ticks, worker, dlqRows, ready, delayed, processing,
                 deadletter, cr, cancelReq, prom, rec, hist, extVars>>

\* scheduleRetry -> requeue: enqueueDelayed(jobId, now + delay, priority)
WRequeueAdd(w) ==
  /\ wk[w].pc = "requeueAdd"
  /\ delayed' = requeueAdd(delayed, wk[w].jobId, wk[w].job.priority,
                           calculateRetryDelay(wk[w].job.retryCount,
                                               wk[w].job.retryDelay), now)
  /\ wk' = [wk EXCEPT ![w].pc = "requeueDel"]
  /\ UNCHANGED <<now, ticks, job, worker, dlqRows, ready, processing,
                 deadletter, cr, cancelReq, prom, rec, hist, extVars>>

\* requeue: HDEL processing jobId
WRequeueDel(w) ==
  /\ wk[w].pc = "requeueDel"
  /\ processing' = markCompleted(processing, wk[w].jobId)
  /\ wk' = [wk EXCEPT ![w].pc = "finish"]
  /\ UNCHANGED <<now, ticks, job, worker, dlqRows, ready, delayed,
                 deadletter, cr, cancelReq, prom, rec, hist, extVars>>

\* the handler threw with the retries used up; handleFailure: update to FAILED
WHandleFailure(w) ==
  /\ wk[w].pc \in HandleErrorPcs
  /\ ~shouldRetry(wk[w].job)
  /\ job' = [job EXCEPT ![wk[w].jobId] = failedUpdate(@, HandlerError, now)]
  /\ wk' = [wk EXCEPT ![w].pc = "dlqAdd"]
  /\ UNCHANGED <<now, ticks, worker, dlqRows, ready, delayed, processing,
                 deadletter, cr, cancelReq, prom, rec, hist, extVars>>

\* process: no handler for job.type; handleFailure without PROCESSING
WNoHandler(w) ==
  /\ wk[w].pc = "process"
  /\ ~wk[w].job.hasHandler
  /\ job' = [job EXCEPT ![wk[w].jobId] = failedUpdate(@, NoHandlerError, now)]
  /\ wk' = [wk EXCEPT ![w].pc = "dlqAdd"]
  /\ UNCHANGED <<now, ticks, worker, dlqRows, ready, delayed, processing,
                 deadletter, cr, cancelReq, prom, rec, hist, extVars>>

FailureMessage(snapshot) ==
  IF snapshot.hasHandler THEN HandlerError ELSE NoHandlerError

\* handleFailure -> moveToDLQ: ZADD dlq
WDlqAdd(w) ==
  /\ wk[w].pc = "dlqAdd"
  /\ deadletter' = moveToDLQAdd(deadletter, wk[w].jobId,
                                FailureMessage(wk[w].job), now)
  /\ wk' = [wk EXCEPT ![w].pc = "dlqDel"]
  /\ UNCHANGED <<now, ticks, job, worker, dlqRows, ready, delayed, processing,
                 cr, cancelReq, prom, rec, hist, extVars>>

\* moveToDLQ: HDEL processing jobId
WDlqDel(w) ==
  /\ wk[w].pc = "dlqDel"
  /\ processing' = markCompleted(processing, wk[w].jobId)
  /\ wk' = [wk EXCEPT ![w].pc = "dlqRow"]
  /\ UNCHANGED <<now, ticks, job, worker, dlqRows, ready, delayed,
                 deadletter, cr, cancelReq, prom, rec, hist, extVars>>

\* handleFailure: await this.deadLetterRepository.create({...})
WDlqRow(w) ==
  /\ wk[w].pc = "dlqRow"
  /\ dlqRows' = Append(dlqRows,
                       deadLetterRow(wk[w].jobId, wk[w].job,
                                     FailureMessage(wk[w].job), now))
  /\ wk' = [wk EXCEPT ![w] = AfterOutcome(@, "failed")]
  /\ UNCHANGED <<now, ticks, job, worker, ready, delayed, processing,
                 deadletter, cr, cancelReq, prom, rec, hist, extVars>>

\* processJob after process returned: the counters, then
\* finally { setActiveJobs(this.workerId, 0) }
WFinish(w) ==
  /\ wk[w].pc = "finish"
  /\ worker' = [worker EXCEPT ![w].activeJobs = 0]
  /\ wk' = [wk EXCEPT ![w] = WkDequeue]
  /\ UNCHANGED <<now, ticks, job, dlqRows, ready, delayed, processing,
                 deadletter, cr, cancelReq, prom, rec, hist, extVars>>

(***************************************************************************)
(* OrphanJobRecovery.recover, one step per await.                          *)
(* rec[r] = [pc, staleWorkers, wi, orphanJobs, ji]: the stale workers as   *)
(* findStaleWorkers returned them, the worker being handled, its orphan    *)
(* jobs as findOrphanJobs returned them and the job being recovered.       *)
(***************************************************************************)
RecIdle == [pc |-> "idle", staleWorkers |-> <<>>, wi |-> 0,
            orphanJobs |-> <<>>, ji |-> 0]

\* findOrphanJobs: one page of PROCESSING rows, then the filter on workerId
\* and the map to {id, priority, retryCount}
findOrphanJobs(workerId) ==
  LET ids == {j \in findMany("PROCESSING", limit) : job[j].workerId = workerId}
      list == SeqOf(ids)
  IN  [k \in 1..Len(list) |->
         [id |-> list[k], priority |-> job[list[k]].priority,
          retryCount |-> job[list[k]].retryCount]]

\* recoverJob: the data of the update
recoverUpdate(row, currentRetryCount) ==
  [row EXCEPT !.status = "RETRYING", !.retryCount = currentRetryCount + 1,
              !.error = RecoveredError, !.workerId = NoWorker]

\* workerRepository.stop: the data of the update
stopUpdate(row, t) ==
  [row EXCEPT !.status = "stopped", !.stoppedAt = t, !.activeJobs = 0]

\* recover: staleWorkers = await findStaleWorkers(staleThresholdMs); with
\* none the cycle returns
recoverFindStale(r) ==
  /\ rec[r].pc = "idle"
  /\ LET staleWorkers == SeqOf(findStaleWorkers(staleThresholdMs))
     IN  rec' = [rec EXCEPT ![r] =
                   IF Len(staleWorkers) = 0
                   THEN RecIdle
                   ELSE [RecIdle EXCEPT !.pc = "findOrphans",
                                        !.staleWorkers = staleWorkers,
                                        !.wi = 1]]
  /\ UNCHANGED <<job, worker, processing, delayed>>

\* recoverWorkerJobs: orphanJobs = await findOrphanJobs(worker.id); with
\* none the worker is stopped next
recoverFindOrphans(r) ==
  /\ rec[r].pc = "findOrphans"
  /\ LET orphanJobs == findOrphanJobs(rec[r].staleWorkers[rec[r].wi])
     IN  rec' = [rec EXCEPT ![r].orphanJobs = orphanJobs,
                            ![r].ji = IF Len(orphanJobs) = 0 THEN 0 ELSE 1,
                            ![r].pc = IF Len(orphanJobs) = 0
                                      THEN "stop" ELSE "update"]
  /\ UNCHANGED <<job, worker, processing, delayed>>

\* recoverJob: await this.jobRepository.update(jobId, {...})
recoverJobUpdate(r) ==
  /\ rec[r].pc = "update"
  /\ LET o == rec[r].orphanJobs[rec[r].ji]
     IN  job' = [job EXCEPT ![o.id] = recoverUpdate(@, o.retryCount)]
  /\ rec' = [rec EXCEPT ![r].pc = "markCompleted"]
  /\ UNCHANGED <<worker, processing, delayed>>

\* recoverJob: await this.queueManager.markCompleted(jobId)
recoverJobMarkCompleted(r) ==
  /\ rec[r].pc = "markCompleted"
  /\ processing' = markCompleted(processing, rec[r].orphanJobs[rec[r].ji].id)
  /\ rec' = [rec EXCEPT ![r].pc = "requeueAdd"]
  /\ UNCHANGED <<job, worker, delayed>>

\* recoverJob -> requeue: enqueueDelayed at now + recoveryDelayMs
recoverJobRequeueAdd(r) ==
  /\ rec[r].pc = "requeueAdd"
  /\ LET o == rec[r].orphanJobs[rec[r].ji]
     IN  delayed' = requeueAdd(delayed, o.id, o.priority, recoveryDelayMs, now)
  /\ rec' = [rec EXCEPT ![r].pc = "requeueDel"]
  /\ UNCHANGED <<job, worker, processing>>

\* requeue: HDEL processing jobId; then the next orphan job
recoverJobRequeueDel(r) ==
  /\ rec[r].pc = "requeueDel"
  /\ processing' = markCompleted(processing, rec[r].orphanJobs[rec[r].ji].id)
  /\ rec' = [rec EXCEPT ![r] =
               IF rec[r].ji = Len(rec[r].orphanJobs)
               THEN [@ EXCEPT !.pc = "stop"]
               ELSE [@ EXCEPT !.pc = "update", !.ji = @ + 1]]
  /\ UNCHANGED <<job, worker, delayed>>

\* recover: await this.workerRepository.stop(worker.id); then the next
\* stale worker, after the last one the cycle returns
recoverStopWorker(r) ==
  /\ rec[r].pc = "stop"
  /\ worker' = [worker EXCEPT ![rec[r].staleWorkers[rec[r].wi]] =
                  stopUpdate(@, now)]
  /\ rec' = [rec EXCEPT ![r] =
               IF rec[r].wi = Len(rec[r].staleWorkers)
               THEN RecIdle
               ELSE [RecIdle EXCEPT !.pc = "findOrphans",
                                    !.staleWorkers = rec[r].staleWorkers,
                                    !.wi = rec[r].wi + 1]]
  /\ UNCHANGED <<job, processing, delayed>>

(***************************************************************************)
(* The service: API requests, worker processes, the delayed promoter, the *)
(* orphan recovery and the clock, interleaved at their awaits.            *)
(* hist is the set of <<jobId, workerId>> that recovery took from a       *)
(* worker.                                                                 *)
(***************************************************************************)
CreateInputs ==
  {[priority |-> "NORMAL", maxRetries |-> 1, retryDelay |-> 1000,
    scheduledAt |-> 0, hasHandler |-> TRUE, webhookUrl |-> FALSE],
   [priority |-> "HIGH", maxRetries |-> 1, retryDelay |-> 1000,
    scheduledAt |-> now + 1000, hasHandler |-> FALSE, webhookUrl |-> FALSE]}

TickDurations == {staleThresholdMs + 1}

PromoteRead(e) ==
  /\ promoteRead(e)
  /\ UNCHANGED <<now, ticks, job, worker, dlqRows, processing, deadletter,
                 cr, cancelReq, wk, rec, hist, extVars>>

PromoteEnqueue(e) ==
  /\ promoteEnqueue(e)
  /\ UNCHANGED <<now, ticks, job, worker, dlqRows, processing, deadletter,
                 cr, cancelReq, wk, rec, hist, extVars>>

PromoteRem(e) ==
  /\ promoteRem(e)
  /\ UNCHANGED <<now, ticks, job, worker, dlqRows, processing, deadletter,
                 cr, cancelReq, wk, rec, hist, extVars>>

RecOther == <<now, ticks, dlqRows, ready, deadletter, cr, cancelReq, wk, prom,
              extVars>>

RecFindStale(r) ==
  /\ recoverFindStale(r)
  /\ rec'[r].pc # "idle"
  /\ UNCHANGED <<RecOther, hist, extVars>>

RecFindOrphans(r) ==
  /\ recoverFindOrphans(r)
  /\ UNCHANGED <<RecOther, hist, extVars>>

RecJobUpdate(r) ==
  /\ recoverJobUpdate(r)
  /\ hist' = hist \cup {<<rec[r].orphanJobs[rec[r].ji].id,
                          rec[r].staleWorkers[rec[r].wi]>>}
  /\ UNCHANGED RecOther

RecJobMarkCompleted(r) ==
  /\ recoverJobMarkCompleted(r)
  /\ UNCHANGED <<RecOther, hist, extVars>>

RecJobRequeueAdd(r) ==
  /\ recoverJobRequeueAdd(r)
  /\ UNCHANGED <<RecOther, hist, extVars>>

RecJobRequeueDel(r) ==
  /\ recoverJobRequeueDel(r)
  /\ UNCHANGED <<RecOther, hist, extVars>>

RecStopWorker(r) ==
  /\ recoverStopWorker(r)
  /\ UNCHANGED <<RecOther, hist, extVars>>

Tick(d) ==
  /\ TickBy(d, MaxTicks)
  /\ UNCHANGED <<job, worker, dlqRows, ready, delayed, processing,
                 deadletter, cr, cancelReq, wk, prom, rec, hist, extVars>>

Init ==
  /\ now = 0
  /\ ticks = 0
  /\ job = EmptyFn
  /\ worker = EmptyFn
  /\ dlqRows = <<>>
  /\ ready = {}
  /\ delayed = {}
  /\ processing = EmptyFn
  /\ deadletter = {}
  /\ cr = EmptyFn
  /\ cancelReq = {}
  /\ wk = [w \in 1..NWorkers |-> WkOff]
  /\ prom = [e \in {1} |-> PromIdle]
  /\ rec = [r \in {1} |-> RecIdle]
  /\ hist = {}
  /\ ExtIdle

Next ==
  \/ \E input \in CreateInputs : CreateRow(input)
  \/ \E j \in DOMAIN cr : CreateEnqueue(j)
  \/ \E j \in DOMAIN cr : CreateSetQueued(j)
  \/ \E j \in DOMAIN job : CancelCheck(j)
  \/ \E j \in cancelReq : CancelWrite(j)
  \/ \E w \in DOMAIN wk : WStart(w)
  \/ \E w \in DOMAIN wk : WHeartbeat(w)
  \/ \E w \in DOMAIN wk : WDequeue(w)
  \/ \E w \in DOMAIN wk : WLoad(w)
  \/ \E w \in DOMAIN wk : WSetActive(w)
  \/ \E w \in DOMAIN wk : WSetProcessing(w)
  \/ \E w \in DOMAIN wk : WMarkProcessing(w)
  \/ \E w \in DOMAIN wk : WHandleSuccess(w)
  \/ \E w \in DOMAIN wk : WSuccessMark(w)
  \/ \E w \in DOMAIN wk : WScheduleRetry(w)
  \/ \E w \in DOMAIN wk : WRequeueAdd(w)
  \/ \E w \in DOMAIN wk : WRequeueDel(w)
  \/ \E w \in DOMAIN wk : WHandleFailure(w)
  \/ \E w \in DOMAIN wk : WNoHandler(w)
  \/ \E w \in DOMAIN wk : WDlqAdd(w)
  \/ \E w \in DOMAIN wk : WDlqDel(w)
  \/ \E w \in DOMAIN wk : WDlqRow(w)
  \/ \E w \in DOMAIN wk : WFinish(w)
  \/ \E e \in DOMAIN prom : PromoteRead(e)
  \/ \E e \in DOMAIN prom : PromoteEnqueue(e)
  \/ \E e \in DOMAIN prom : PromoteRem(e)
  \/ \E r \in DOMAIN rec : RecFindStale(r)
  \/ \E r \in DOMAIN rec : RecFindOrphans(r)
  \/ \E r \in DOMAIN rec : RecJobUpdate(r)
  \/ \E r \in DOMAIN rec : RecJobMarkCompleted(r)
  \/ \E r \in DOMAIN rec : RecJobRequeueAdd(r)
  \/ \E r \in DOMAIN rec : RecJobRequeueDel(r)
  \/ \E r \in DOMAIN rec : RecStopWorker(r)
  \/ \E d \in TickDurations : Tick(d)

Spec == Init /\ [][Next]_vars

(***************************************************************************)
(* Claims about the job state machine, checked under Spec                  *)
(***************************************************************************)
\* C1: once a job row is COMPLETED, FAILED or CANCELLED, no later write of
\* JobService.cancel, of a worker or of the orphan recovery changes its
\* status (the steps of JobService.create are left out of the claim).
C1_TerminalStatusKept ==
  [][cr' = cr =>
       \A j \in DOMAIN job :
         job[j].status \in Terminal => job'[j].status = job[j].status]_vars

\* C2: in every reachable state, every job id in the processing index has
\* a row with status PROCESSING whose workerId is the one stored in the
\* index.
C2_SingleOwnership ==
  \A j \in DOMAIN processing :
    /\ job[j].status = "PROCESSING"
    /\ job[j].workerId = processing[j].workerId

HasDeadLetterRow(j, failureCount) ==
  \E k \in 1..Len(dlqRows) :
    /\ dlqRows[k].originalJobId = j
    /\ dlqRows[k].failureCount = failureCount

\* C3, as claimed: when process returns after a failed handler invocation,
\* the row's retryCount is one greater than that of the job the processor
\* was given, and the job is RETRYING and in the delayed index, or FAILED
\* with a DeadLetterJob row.
C3_RetryCountAlwaysIncremented ==
  [][\A w \in DOMAIN wk :
       (/\ wk[w].pc \in {"requeueDel", "dlqRow"}
        /\ wk'[w].pc = "finish"
        /\ wk[w].job.hasHandler)
       => LET j == wk[w].jobId
          IN  /\ job'[j].retryCount = wk[w].job.retryCount + 1
              /\ \/ /\ job'[j].status = "RETRYING"
                    /\ \E m \in ZMembers(delayed') : MemberJobId(m) = j
                 \/ /\ job'[j].status = "FAILED"
                    /\ \E k \in 1..Len(dlqRows') :
                         dlqRows'[k].originalJobId = j]_vars

\* C3, amended: after a failed handler invocation the processor either
\* writes RETRYING with retryCount one greater than that of the job it was
\* given and adds the job to the delayed index, or, with the retries used
\* up, writes FAILED leaving retryCount as it is and creates a DeadLetterJob
\* row whose failureCount is that retryCount plus one.
C3_RetryOrDeadLetter ==
  [][\A w \in DOMAIN wk :
       LET j == wk[w].jobId
           given == wk[w].job
       IN  /\ (wk[w].pc = "handler" /\ wk'[w].pc = "requeueAdd")
                => /\ given.retryCount < given.maxRetries
                   /\ job'[j].status = "RETRYING"
                   /\ job'[j].retryCount = given.retryCount + 1
           /\ (wk[w].pc = "requeueAdd" /\ wk'[w].pc = "requeueDel")
                => DelayedMember(j, given.priority) \in ZMembers(delayed')
           /\ (wk[w].pc = "handler" /\ wk'[w].pc = "dlqAdd")
                => /\ given.retryCount >= given.maxRetries
                   /\ job'[j].status = "FAILED"
                   /\ job'[j].retryCount = job[j].retryCount
           /\ (wk[w].pc = "dlqRow" /\ wk'[w].pc = "finish")
                => /\ dlqRows'[Len(dlqRows')].originalJobId = j
                   /\ dlqRows'[Len(dlqRows')].failureCount =
                        given.retryCount + 1]_vars

\* process returned for a job that was retried once and then failed for
\* good: the row is FAILED with the retryCount of the retry, and the dead
\* letter row counts one more
C3_Witness ==
  \E w \in DOMAIN wk :
    /\ wk[w].pc = "finish"
    /\ wk[w].job.hasHandler
    /\ wk[w].job.retryCount = 1
    /\ job[wk[w].jobId].status = "FAILED"
    /\ job[wk[w].jobId].retryCount = 1
    /\ HasDeadLetterRow(wk[w].jobId, 2)

\* C5: when worker w's handler returns for a job that the orphan recovery
\* took from w, and the row is no longer PROCESSING under w, the write of
\* handleSuccess leaves the row's status and result as they are.
C5_LateFinisherDiscarded ==
  [][\A w \in DOMAIN wk :
       LET j == wk[w].jobId
       IN  (/\ wk[w].pc = "handler"
            /\ wk'[w].pc = "successMark"
            /\ <<j, w>> \in hist
            /\ ~(job[j].status = "PROCESSING" /\ job[j].workerId = w))
           => /\ job'[j].status = job[j].status
              /\ job'[j].result = job[j].result]_vars

(***************************************************************************)
(* One recovery cycle over a large fleet: limit + ExtraProcessing workers *)
(* each took one job (job 2 may have been taken by worker 1 as well, whose *)
(* write for job 1 had failed), and some of the workers 1, 2 and the last  *)
(* one died before finishing.  hist = [stale, owner, cycles]: the workers  *)
(* that are stale when the cycle starts, the worker of every PROCESSING    *)
(* row at that time, and the number of cycles that returned.               *)
(***************************************************************************)
NProcessing == limit + ExtraProcessing

RecoveryInput ==
  [priority |-> "NORMAL", maxRetries |-> 1, retryDelay |-> 1000,
   scheduledAt |-> 0, hasHandler |-> TRUE, webhookUrl |-> FALSE]

RInit ==
  /\ now = staleThresholdMs + 1
  /\ ticks = 0
  /\ \E owner2 \in {1, 2} :
       job = [j \in 1..NProcessing |->
                [NewJobRow(RecoveryInput, j) EXCEPT
                   !.status = "PROCESSING",
                   !.workerId = IF j = 2 THEN owner2 ELSE j]]
  /\ \E dead \in (SUBSET {1, 2, NProcessing}) \ {{}} :
       worker = [w \in 1..NProcessing |->
                   NewWorkerRow(IF w \in dead THEN 0 ELSE now)]
  /\ dlqRows = <<>>
  /\ ready = {}
  /\ delayed = {}
  /\ processing = [j \in 1..NProcessing |->
                     [workerId |-> job[j].workerId, startedAt |-> 0]]
  /\ deadletter = {}
  /\ cr = EmptyFn
  /\ cancelReq = {}
  /\ wk = EmptyFn
  /\ prom = [e \in {1} |-> PromIdle]
  /\ rec = [r \in {1} |-> RecIdle]
  /\ hist = [stale |-> findStaleWorkers(staleThresholdMs),
             owner |-> [j \in 1..NProcessing |-> job[j].workerId],
             cycles |-> 0]
  /\ ExtIdle

ROther == <<dlqRows, deadletter, cr, cancelReq, wk, extVars>>

RRecFindStale(r) ==
  /\ hist.cycles = 0
  /\ recoverFindStale(r)
  /\ hist' = [hist EXCEPT !.cycles = IF rec'[r].pc = "idle" THEN 1 ELSE 0]
  /\ UNCHANGED <<now, ticks, ready, prom, ROther>>

RRecFindOrphans(r) ==
  /\ recoverFindOrphans(r)
  /\ UNCHANGED <<now, ticks, ready, prom, hist, ROther>>

RRecJobUpdate(r) ==
  /\ recoverJobUpdate(r)
  /\ UNCHANGED <<now, ticks, ready, prom, hist, ROther>>

RRecJobMarkCompleted(r) ==
  /\ recoverJobMarkCompleted(r)
  /\ UNCHANGED <<now, ticks, ready, prom, hist, ROther>>

RRecJobRequeueAdd(r) ==
  /\ recoverJobRequeueAdd(r)
  /\ UNCHANGED <<now, ticks, ready, prom, hist, ROther>>

RRecJobRequeueDel(r) ==
  /\ recoverJobRequeueDel(r)
  /\ UNCHANGED <<now, ticks, ready, prom, hist, ROther>>

RRecStopWorker(r) ==
  /\ recoverStopWorker(r)
  /\ hist' = [hist EXCEPT !.cycles = IF rec'[r].pc = "idle" THEN 1 ELSE 0]
  /\ UNCHANGED <<now, ticks, ready, prom, ROther>>

RPromoteRead(e) ==
  /\ promoteRead(e)
  /\ UNCHANGED <<now, ticks, job, worker, processing, rec, hist, ROther>>

RPromoteEnqueue(e) ==
  /\ promoteEnqueue(e)
  /\ UNCHANGED <<now, ticks, job, worker, processing, rec, hist, ROther>>

RPromoteRem(e) ==
  /\ promoteRem(e)
  /\ UNCHANGED <<now, ticks, job, worker, processing, rec, hist, ROther>>

RTick ==
  /\ TickBy(recoveryDelayMs, MaxRecTicks)
  /\ UNCHANGED <<job, worker, ready, delayed, processing, prom, rec, hist,
                 ROther>>

RNext ==
  \/ \E r \in DOMAIN rec : RRecFindStale(r)
  \/ \E r \in DOMAIN rec : RRecFindOrphans(r)
  \/ \E r \in DOMAIN rec : RRecJobUpdate(r)
  \/ \E r \in DOMAIN rec : RRecJobMarkCompleted(r)
  \/ \E r \in DOMAIN rec : RRecJobRequeueAdd(r)
  \/ \E r \in DOMAIN rec : RRecJobRequeueDel(r)
  \/ \E r \in DOMAIN rec : RRecStopWorker(r)
  \/ \E e \in DOMAIN prom : RPromoteRead(e)
  \/ \E e \in DOMAIN prom : RPromoteEnqueue(e)
  \/ \E e \in DOMAIN prom : RPromoteRem(e)
  \/ RTick

RecoverySpec == RInit /\ [][RNext]_vars

InReadyOrDelayed(j) ==
  \/ j \in ZMembers(ready)
  \/ \E m \in ZMembers(delayed) : MemberJobId(m) = j

\* C4: after one recover cycle, every worker that was active with a
\* lastHeartbeat older than staleThresholdMs is stopped, and every job that
\* was PROCESSING under it has workerId = null and is in the ready or the
\* delayed index, however many jobs are PROCESSING under other workers.
C4_AllOrphansRecovered ==
  hist.cycles = 1 =>
    \A w \in hist.stale :
      /\ worker[w].status = "stopped"
      /\ \A j \in DOMAIN hist.owner :
           hist.owner[j] = w =>
             /\ job[j].workerId = NoWorker
             /\ InReadyOrDelayed(j)

(***************************************************************************)
(* The webhook pipeline: WebhookEventRepository, WebhookDispatcher and     *)
(* WebhookRetryProcessor.  A row of webhook_events is                      *)
(* [jobId, kind, status, attempts, maxAttempts, lastAttemptAt,             *)
(* completedAt]; its id is its position in webhookEvents.                  *)
(***************************************************************************)
\* WebhookRetryProcessor DEFAULT_CONFIG
\* response.status of the responses the model's endpoint gives: one with
\* response.ok, one without; NoStatusCode is the null column
okStatus == 200
errorStatus == 500
NoStatusCode == 0

batchSize == 50
baseDelayMs == 5000
retryMultiplier == 2

\* a timestamp column that is null
NoTime == -1

\* webhookEventRepository.create: attempts defaults to 0, status 'pending'
NewWebhookEvent(jobId, kind, max) ==
  [jobId |-> jobId, kind |-> kind, status |-> "pending", attempts |-> 0,
   maxAttempts |-> max, lastAttemptAt |-> NoTime, completedAt |-> NoTime,
   lastStatusCode |-> NoStatusCode, sends |-> 0]

\* fetch: one more POST was sent for the event (sends is a history field,
\* no code reads it)
Sent(row) == [row EXCEPT !.sends = @ + 1]

\* webhookEventRepository.markSuccess(id, response.status): the data of the
\* update; the response was ok
markSuccessUpdate(row, t) ==
  [row EXCEPT !.status = "success", !.lastStatusCode = okStatus,
              !.lastAttemptAt = t, !.completedAt = t]

\* webhookEventRepository.markFailed: the data of the update, from the
\* attempts that its findById read
\* (statusCode is undefined when fetch threw: the column is left as it is)
markFailedUpdate(row, attempts, statusCode, t) ==
  LET newAttempts == attempts + 1
      isFinalFailure == newAttempts >= row.maxAttempts
  IN  [row EXCEPT !.status = IF isFinalFailure THEN "failed" ELSE "retrying",
                  !.attempts = newAttempts,
                  !.lastStatusCode = IF statusCode = NoStatusCode
                                     THEN @ ELSE statusCode,
                  !.lastAttemptAt = t,
                  !.completedAt = IF isFinalFailure THEN t ELSE NoTime]

\* webhookEventRepository.updateAttempt(id, {status: 'retrying', attempts})
updateAttempt(row, attempts, t) ==
  [row EXCEPT !.status = "retrying", !.attempts = attempts,
              !.lastAttemptAt = t]

\* webhookEventRepository.findPendingRetries(limit): the ids, oldest first
findPendingRetries(lim) ==
  LET match == {k \in 1..Len(webhookEvents) :
                  /\ webhookEvents[k].status \in {"pending", "retrying"}
                  /\ webhookEvents[k].attempts < webhookEvents[k].maxAttempts}
      page == {k \in match : Cardinality({m \in match : m < k}) < lim}
      ids == SeqOf(page)
  IN  [n \in 1..Len(ids) |->
         [id |-> ids[n], attempts |-> webhookEvents[ids[n]].attempts,
          lastAttemptAt |-> webhookEvents[ids[n]].lastAttemptAt]]

\* WebhookRetryProcessor.shouldRetry
shouldRetryEvent(attempts, lastAttemptAt) ==
  \/ lastAttemptAt = NoTime
  \/ now >= lastAttemptAt + baseDelayMs * Pow(retryMultiplier, attempts)

(***************************************************************************)
(* WebhookDispatcher.dispatch inside handleSuccess / handleFailure         *)
(***************************************************************************)
\* dispatch: webhookEvent = await this.webhookEventRepository.create(...)
WHookCreate(w) ==
  /\ wk[w].pc = "hookCreate"
  /\ webhookEvents' = Append(webhookEvents,
                             NewWebhookEvent(wk[w].jobId, wk[w].dispatch,
                                             maxAttempts))
  /\ wk' = [wk EXCEPT ![w].pc = "hookFetch",
                      ![w].eventId = Len(webhookEvents) + 1]
  /\ UNCHANGED <<now, ticks, job, worker, dlqRows, ready, delayed, processing,
                 deadletter, cr, cancelReq, prom, rec, hist, hookp,
                 maxAttempts, schedVars, api>>

HookOther == <<now, ticks, job, worker, dlqRows, ready, delayed, processing,
               deadletter, cr, cancelReq, prom, rec, hist, schedVars, api>>

\* executeWebhook: await fetch(...) returned a 2xx response
WHookFetchOk(w) ==
  /\ wk[w].pc = "hookFetch"
  /\ wk' = [wk EXCEPT ![w].pc = "hookMarkSuccess"]
  /\ webhookEvents' = [webhookEvents EXCEPT ![wk[w].eventId] = Sent(@)]
  /\ UNCHANGED <<HookOther, hookp, maxAttempts>>

\* executeWebhook: fetch returned a non-2xx response; markFailed is called
\* inside the try block
WHookFetchNotOk(w) ==
  /\ wk[w].pc = "hookFetch"
  /\ wk' = [wk EXCEPT ![w].pc = "hookFindEvent"]
  /\ webhookEvents' = [webhookEvents EXCEPT ![wk[w].eventId] = Sent(@)]
  /\ UNCHANGED <<HookOther, hookp, maxAttempts>>

\* executeWebhook: fetch threw (timeout, transport error); markFailed is
\* called inside the catch block
WHookFetchThrows(w) ==
  /\ wk[w].pc = "hookFetch"
  /\ wk' = [wk EXCEPT ![w].pc = "hookFindEventC"]
  /\ webhookEvents' = [webhookEvents EXCEPT ![wk[w].eventId] = Sent(@)]
  /\ UNCHANGED <<HookOther, hookp, maxAttempts>>

\* webhookEventRepository.markSuccess; dispatch and process return
WHookMarkSuccess(w) ==
  /\ wk[w].pc = "hookMarkSuccess"
  /\ webhookEvents' = [webhookEvents EXCEPT ![wk[w].eventId] =
                         markSuccessUpdate(@, now)]
  /\ wk' = [wk EXCEPT ![w].pc = "finish"]
  /\ UNCHANGED <<HookOther, hookp, maxAttempts>>

\* markFailed: const event = await this.findById(id)
WHookFindEvent(w) ==
  /\ wk[w].pc \in {"hookFindEvent", "hookFindEventC"}
  /\ wk' = [wk EXCEPT ![w].attempts = webhookEvents[wk[w].eventId].attempts,
                      ![w].pc = IF wk[w].pc = "hookFindEvent"
                                THEN "hookMarkFailed" ELSE "hookMarkFailedC"]
  /\ UNCHANGED <<HookOther, hookVars>>

\* markFailed: the update; dispatch and process return
WHookMarkFailed(w) ==
  /\ wk[w].pc \in {"hookMarkFailed", "hookMarkFailedC"}
  /\ webhookEvents' = [webhookEvents EXCEPT ![wk[w].eventId] =
                         markFailedUpdate(@, wk[w].attempts,
                                          IF wk[w].pc = "hookMarkFailed"
                                          THEN errorStatus ELSE NoStatusCode,
                                          now)]
  /\ wk' = [wk EXCEPT ![w].pc = "finish"]
  /\ UNCHANGED <<HookOther, hookp, maxAttempts>>

(***************************************************************************)
(* Failures of store, index and webhook commands inside JobProcessor.      *)
(* process wraps the handler call and handleSuccess in one try block whose *)
(* catch calls handleError; handleError and handleFailure run outside it.  *)
(***************************************************************************)
\* an exception leaves dispatch: out of handleSuccess it reaches the catch
\* of process, out of handleFailure it leaves process
Propagate(task) ==
  IF task.dispatch = "completed"
  THEN [task EXCEPT !.pc = "webhookThrew"]
  ELSE [task EXCEPT !.pc = "finish"]

\* dispatch: webhookEventRepository.create throws
WHookCreateThrows(w) ==
  /\ wk[w].pc = "hookCreate"
  /\ wk' = [wk EXCEPT ![w] = Propagate(@)]
  /\ UNCHANGED <<HookOther, hookVars>>

\* executeWebhook: markSuccess or markFailed throws inside the try block;
\* the catch block calls markFailed
WHookMarkThrows(w) ==
  /\ wk[w].pc \in {"hookMarkSuccess", "hookFindEvent", "hookMarkFailed"}
  /\ wk' = [wk EXCEPT ![w].pc = "hookFindEventC"]
  /\ UNCHANGED <<HookOther, hookVars>>

\* executeWebhook: markFailed throws inside the catch block
WHookCatchThrows(w) ==
  /\ wk[w].pc \in {"hookFindEventC", "hookMarkFailedC"}
  /\ wk' = [wk EXCEPT ![w] = Propagate(@)]
  /\ UNCHANGED <<HookOther, hookVars>>

\* handleSuccess: jobRepository.update or queueManager.markCompleted throws
WThrowInTry(w) ==
  /\ wk[w].pc \in {"handler", "successMark"}
  /\ wk' = [wk EXCEPT ![w].pc = "infraThrew"]
  /\ UNCHANGED <<HookOther, hookVars>>

\* scheduleRetry or handleFailure: a store or index command throws; the
\* exception leaves process, processJob runs its finally block
WThrowInCatch(w) ==
  /\ wk[w].pc \in HandleErrorPcs \cup
                  {"requeueAdd", "requeueDel", "dlqAdd", "dlqDel", "dlqRow"}
  /\ wk' = [wk EXCEPT ![w].pc = "finish"]
  /\ UNCHANGED <<HookOther, hookVars>>

(***************************************************************************)
(* WebhookRetryProcessor.processRetries, one step per await.               *)
(* hookp[h] = [pc, pendingEvents, i, attempts]: the rows as                *)
(* findPendingRetries returned them, the loop position and the attempts    *)
(* that markFailed read.                                                   *)
(***************************************************************************)
HookIdle == [pc |-> "idle", pendingEvents |-> <<>>, i |-> 0, attempts |-> 0]

\* the for loop from position i on: events whose backoff has not elapsed
\* are skipped; at the end of the list the cycle returns
NextRetry(task, i) ==
  LET due == {k \in i..Len(task.pendingEvents) :
                shouldRetryEvent(task.pendingEvents[k].attempts,
                                 task.pendingEvents[k].lastAttemptAt)}
  IN  IF due = {}
      THEN HookIdle
      ELSE [task EXCEPT !.pc = "updateAttempt",
                        !.i = CHOOSE k \in due : \A m \in due : k <= m]

\* pendingEvents = await findPendingRetries(batchSize)
HookFind(h) ==
  /\ hookp[h].pc = "idle"
  /\ hookp' = [hookp EXCEPT ![h] =
                 NextRetry([HookIdle EXCEPT
                              !.pendingEvents = findPendingRetries(batchSize)],
                           1)]
  /\ hookp'[h] # HookIdle
  /\ UNCHANGED <<HookOther, wk, webhookEvents, maxAttempts>>

\* await updateAttempt(event.id, {status: 'retrying', attempts: event.attempts + 1})
HookUpdateAttempt(h) ==
  /\ hookp[h].pc = "updateAttempt"
  /\ LET event == hookp[h].pendingEvents[hookp[h].i]
     IN  webhookEvents' = [webhookEvents EXCEPT ![event.id] =
                             updateAttempt(@, event.attempts + 1, now)]
  /\ hookp' = [hookp EXCEPT ![h].pc = "fetch"]
  /\ UNCHANGED <<HookOther, wk, maxAttempts>>

\* executeWebhook: fetch returned a 2xx response
HookFetchOk(h) ==
  /\ hookp[h].pc = "fetch"
  /\ hookp' = [hookp EXCEPT ![h].pc = "markSuccess"]
  /\ webhookEvents' = [webhookEvents EXCEPT
                         ![hookp[h].pendingEvents[hookp[h].i].id] = Sent(@)]
  /\ UNCHANGED <<HookOther, wk, maxAttempts>>

\* executeWebhook: fetch returned a non-2xx response or threw
HookFetchFail(h) ==
  /\ hookp[h].pc = "fetch"
  /\ hookp' = [hookp EXCEPT ![h].pc = "findEvent"]
  /\ webhookEvents' = [webhookEvents EXCEPT
                         ![hookp[h].pendingEvents[hookp[h].i].id] = Sent(@)]
  /\ UNCHANGED <<HookOther, wk, maxAttempts>>

\* markSuccess; then the next event
HookMarkSuccess(h) ==
  /\ hookp[h].pc = "markSuccess"
  /\ webhookEvents' = [webhookEvents EXCEPT
                         ![hookp[h].pendingEvents[hookp[h].i].id] =
                           markSuccessUpdate(@, now)]
  /\ hookp' = [hookp EXCEPT ![h] = NextRetry(@, hookp[h].i + 1)]
  /\ UNCHANGED <<HookOther, wk, maxAttempts>>

\* markFailed: const event = await this.findById(id)
HookFindEvent(h) ==
  /\ hookp[h].pc = "findEvent"
  /\ hookp' = [hookp EXCEPT
                 ![h].attempts =
                   webhookEvents[hookp[h].pendingEvents[hookp[h].i].id].attempts,
                 ![h].pc = "markFailed"]
  /\ UNCHANGED <<HookOther, wk, webhookEvents, maxAttempts>>

\* markFailed: the update; then the next event
HookMarkFailed(h) ==
  /\ hookp[h].pc = "markFailed"
  /\ \E statusCode \in {errorStatus, NoStatusCode} :
       webhookEvents' = [webhookEvents EXCEPT
                           ![hookp[h].pendingEvents[hookp[h].i].id] =
                             markFailedUpdate(@, hookp[h].attempts,
                                              statusCode, now)]
  /\ hookp' = [hookp EXCEPT ![h] = [NextRetry(@, hookp[h].i + 1)
                                      EXCEPT !.attempts = 0]]
  /\ UNCHANGED <<HookOther, wk, maxAttempts>>

(***************************************************************************)
(* HookSpec: one worker process runs one job that has a webhookUrl; store, *)
(* index and webhook commands of the processor may throw; the webhook      *)
(* retry processor runs beside it.  maxAttempts is the configured          *)
(* WEBHOOK_MAX_ATTEMPTS.                                                   *)
(***************************************************************************)
HookInputs ==
  {[priority |-> "NORMAL", maxRetries |-> r, retryDelay |-> 1000,
    scheduledAt |-> 0, hasHandler |-> TRUE, webhookUrl |-> TRUE] :
     r \in {0, 1}}

\* long enough for the backoff after two attempts
HookTickMs == baseDelayMs * Pow(retryMultiplier, 2)

HookInit ==
  /\ now = 0
  /\ ticks = 0
  /\ job = EmptyFn
  /\ worker = EmptyFn
  /\ dlqRows = <<>>
  /\ ready = {}
  /\ delayed = {}
  /\ processing = EmptyFn
  /\ deadletter = {}
  /\ cr = EmptyFn
  /\ cancelReq = {}
  /\ wk = [w \in {1} |-> WkOff]
  /\ prom = EmptyFn
  /\ rec = EmptyFn
  /\ hist = {}
  /\ webhookEvents = <<>>
  /\ hookp = [h \in {1} |-> HookIdle]
  /\ maxAttempts \in 1..MaxMaxAttempts
  /\ schedule = EmptyFn
  /\ exec = EmptyFn
  /\ api = EmptyFn

HookTick ==
  /\ TickBy(HookTickMs, MaxHookTicks)
  /\ UNCHANGED <<job, worker, dlqRows, ready, delayed, processing,
                 deadletter, cr, cancelReq, wk, prom, rec, hist, extVars>>

HookNext ==
  \/ \E input \in HookInputs : CreateRow(input)
  \/ \E j \in DOMAIN cr : CreateEnqueue(j)
  \/ \E j \in DOMAIN cr : CreateSetQueued(j)
  \/ \E w \in DOMAIN wk : WStart(w)
  \/ \E w \in DOMAIN wk : WDequeue(w)
  \/ \E w \in DOMAIN wk : WLoad(w)
  \/ \E w \in DOMAIN wk : WSetActive(w)
  \/ \E w \in DOMAIN wk : WSetProcessing(w)
  \/ \E w \in DOMAIN wk : WMarkProcessing(w)
  \/ \E w \in DOMAIN wk : WHandleSuccess(w)
  \/ \E w \in DOMAIN wk : WSuccessMark(w)
  \/ \E w \in DOMAIN wk : WScheduleRetry(w)
  \/ \E w \in DOMAIN wk : WRequeueAdd(w)
  \/ \E w \in DOMAIN wk : WRequeueDel(w)
  \/ \E w \in DOMAIN wk : WHandleFailure(w)
  \/ \E w \in DOMAIN wk : WDlqAdd(w)
  \/ \E w \in DOMAIN wk : WDlqDel(w)
  \/ \E w \in DOMAIN wk : WDlqRow(w)
  \/ \E w \in DOMAIN wk : WFinish(w)
  \/ \E w \in DOMAIN wk : WHookCreate(w)
  \/ \E w \in DOMAIN wk : WHookFetchOk(w)
  \/ \E w \in DOMAIN wk : WHookFetchNotOk(w)
  \/ \E w \in DOMAIN wk : WHookFetchThrows(w)
  \/ \E w \in DOMAIN wk : WHookMarkSuccess(w)
  \/ \E w \in DOMAIN wk : WHookFindEvent(w)
  \/ \E w \in DOMAIN wk : WHookMarkFailed(w)
  \/ \E w \in DOMAIN wk : WHookCreateThrows(w)
  \/ \E w \in DOMAIN wk : WHookMarkThrows(w)
  \/ \E w \in DOMAIN wk : WHookCatchThrows(w)
  \/ \E w \in DOMAIN wk : WThrowInTry(w)
  \/ \E w \in DOMAIN wk : WThrowInCatch(w)
  \/ \E h \in DOMAIN hookp : HookFind(h)
  \/ \E h \in DOMAIN hookp : HookUpdateAttempt(h)
  \/ \E h \in DOMAIN hookp : HookFetchOk(h)
  \/ \E h \in DOMAIN hookp : HookFetchFail(h)
  \/ \E h \in DOMAIN hookp : HookMarkSuccess(h)
  \/ \E h \in DOMAIN hookp : HookFindEvent(h)
  \/ \E h \in DOMAIN hookp : HookMarkFailed(h)
  \/ HookTick

HookSpec == HookInit /\ [][HookNext]_vars

\* C11: every WebhookEvent row whose status is the terminal `failed` has
\* attempts exactly equal to its maxAttempts, for every configured
\* maxAttempts >= 1.
C11_FailedAtMaxAttempts ==
  \A k \in 1..Len(webhookEvents) :
    webhookEvents[k].status = "failed" =>
      webhookEvents[k].attempts = webhookEvents[k].maxAttempts

\* C12: after handleSuccess wrote COMPLETED, a failure inside
\* WebhookDispatcher.dispatch leaves the job row's status, result and
\* retryCount as written: the step the processor takes after the exception
\* does not change them.
C12_WebhookFailureKeepsOutcome ==
  [][\A w \in DOMAIN wk :
       (wk[w].pc = "webhookThrew" /\ wk'[w] # wk[w])
       => LET j == wk[w].jobId
          IN  /\ job'[j].status = job[j].status
              /\ job'[j].result = job[j].result
              /\ job'[j].retryCount = job[j].retryCount]_vars

\* C13: after a store or index command threw inside handleSuccess (the job
\* had been set to PROCESSING), the processor writes no further status for
\* the job in this process call.
C13_NoStatusWriteAfterThrow ==
  [][\A w \in DOMAIN wk :
       (wk[w].pc = "infraThrew" /\ wk'[w] # wk[w])
       => job'[wk[w].jobId].status = job[wk[w].jobId].status]_vars

(***************************************************************************)
(* LiveSpec: jobs whose handler exists and succeeds, never cancelled, one  *)
(* worker process and its delayed promoter, all of them scheduled fairly.  *)
(***************************************************************************)
LiveInputs ==
  {[priority |-> "NORMAL", maxRetries |-> 1, retryDelay |-> 1000,
    scheduledAt |-> at, hasHandler |-> TRUE, webhookUrl |-> FALSE] :
     at \in {0, now + 1000}}

LiveInit ==
  /\ now = 0
  /\ ticks = 0
  /\ job = EmptyFn
  /\ worker = EmptyFn
  /\ dlqRows = <<>>
  /\ ready = {}
  /\ delayed = {}
  /\ processing = EmptyFn
  /\ deadletter = {}
  /\ cr = EmptyFn
  /\ cancelReq = {}
  /\ wk = [w \in 1..NWorkers |-> WkOff]
  /\ prom = [e \in {1} |-> PromIdle]
  /\ rec = EmptyFn
  /\ hist = {}
  /\ ExtIdle

LiveCreate ==
  \/ \E input \in LiveInputs : CreateRow(input)
  \/ \E j \in DOMAIN cr : CreateEnqueue(j)
  \/ \E j \in DOMAIN cr : CreateSetQueued(j)

LiveWorker ==
  \/ \E w \in DOMAIN wk : WStart(w)
  \/ \E w \in DOMAIN wk : WDequeue(w)
  \/ \E w \in DOMAIN wk : WLoad(w)
  \/ \E w \in DOMAIN wk : WSetActive(w)
  \/ \E w \in DOMAIN wk : WSetProcessing(w)
  \/ \E w \in DOMAIN wk : WMarkProcessing(w)
  \/ \E w \in DOMAIN wk : WHandleSuccess(w)
  \/ \E w \in DOMAIN wk : WSuccessMark(w)
  \/ \E w \in DOMAIN wk : WFinish(w)

LivePromoter ==
  \/ \E e \in DOMAIN prom : PromoteRead(e)
  \/ \E e \in DOMAIN prom : PromoteEnqueue(e)
  \/ \E e \in DOMAIN prom : PromoteRem(e)

\* time passes until the next delayed member is due
LiveTick ==
  /\ \E m \in delayed : m.score > now
  /\ now' = CHOOSE t \in {m.score : m \in delayed} :
              t > now /\ \A m \in delayed : m.score > now => t <= m.score
  /\ UNCHANGED <<ticks, job, worker, dlqRows, ready, delayed, processing,
                 deadletter, cr, cancelReq, wk, prom, rec, hist, extVars>>

LiveNext == LiveCreate \/ LiveWorker \/ LivePromoter \/ LiveTick

LiveSpec ==
  /\ LiveInit
  /\ [][LiveNext]_vars
  /\ WF_vars(LiveCreate)
  /\ WF_vars(LiveWorker)
  /\ WF_vars(LivePromoter)
  /\ WF_vars(LiveTick)

Completed(j) == j \in DOMAIN job /\ job[j].status = "COMPLETED"

\* C14: every job created through JobService.create whose handler succeeds
\* and that is never cancelled eventually reaches COMPLETED, under weak
\* fairness of the creator, the worker loop, the delayed promoter and the
\* clock, for every interleaving of the creator's writes with the worker's
\* dequeue.
C14_EventuallyCompleted ==
  \A j \in 1..NJobs : (j \in DOMAIN job) ~> Completed(j)

\* ---------------------------------------------------------------------
\* Retry exhaustion: a job whose handler always throws, two worker
\* processes (each runs a worker loop and a delayed promoter), no cancel,
\* no recovery cycle.
RetryInputs ==
  {[priority |-> "NORMAL", maxRetries |-> r, retryDelay |-> 1000,
    scheduledAt |-> 0, hasHandler |-> TRUE, webhookUrl |-> FALSE] :
     r \in {0, 1}}

RetryInit ==
  /\ now = 0
  /\ ticks = 0
  /\ job = EmptyFn
  /\ worker = EmptyFn
  /\ dlqRows = <<>>
  /\ ready = {}
  /\ delayed = {}
  /\ processing = EmptyFn
  /\ deadletter = {}
  /\ cr = EmptyFn
  /\ cancelReq = {}
  /\ wk = [w \in 1..NWorkers |-> WkOff]
  /\ prom = [e \in 1..NWorkers |-> PromIdle]
  /\ rec = EmptyFn
  /\ hist = {}
  /\ ExtIdle

RetryNext ==
  \/ \E input \in RetryInputs : CreateRow(input)
  \/ \E j \in DOMAIN cr : CreateEnqueue(j)
  \/ \E j \in DOMAIN cr : CreateSetQueued(j)
  \/ \E w \in DOMAIN wk : WStart(w)
  \/ \E w \in DOMAIN wk : WDequeue(w)
  \/ \E w \in DOMAIN wk : WLoad(w)
  \/ \E w \in DOMAIN wk : WSetActive(w)
  \/ \E w \in DOMAIN wk : WSetProcessing(w)
  \/ \E w \in DOMAIN wk : WMarkProcessing(w)
  \/ \E w \in DOMAIN wk : WScheduleRetry(w)
  \/ \E w \in DOMAIN wk : WHandleFailure(w)
  \/ \E w \in DOMAIN wk : WRequeueAdd(w)
  \/ \E w \in DOMAIN wk : WRequeueDel(w)
  \/ \E w \in DOMAIN wk : WDlqAdd(w)
  \/ \E w \in DOMAIN wk : WDlqDel(w)
  \/ \E w \in DOMAIN wk : WDlqRow(w)
  \/ \E w \in DOMAIN wk : WFinish(w)
  \/ \E e \in DOMAIN prom : PromoteRead(e)
  \/ \E e \in DOMAIN prom : PromoteEnqueue(e)
  \/ \E e \in DOMAIN prom : PromoteRem(e)
  \/ LiveTick

RetrySpec == RetryInit /\ [][RetryNext]_vars

DeadLetterRowsOf(j) ==
  {k \in 1..Len(dlqRows) : dlqRows[k].originalJobId = j}

\* C15: once a job whose handler fails on every invocation is FAILED and no
\* worker is still working on it, its retryCount equals maxRetries and
\* exactly one DeadLetterJob row exists for it, with failureCount =
\* maxRetries + 1 (one row per exhausted run, so one run made the last
\* invocation).
C15_ExhaustedOnce ==
  \A j \in DOMAIN job :
    (/\ job[j].status = "FAILED"
     /\ \A w \in DOMAIN wk : wk[w].jobId # j)
    => /\ job[j].retryCount = job[j].maxRetries
       /\ Cardinality(DeadLetterRowsOf(j)) = 1
       /\ \A k \in DeadLetterRowsOf(j) :
            dlqRows[k].failureCount = job[j].maxRetries + 1

\* ---------------------------------------------------------------------
\* Row invariants of the whole service (specification Spec).

\* C19: in every reachable state every job row has retryCount <= maxRetries,
\* also after OrphanJobRecovery reclaimed a job whose retryCount already
\* equals maxRetries.
C19_RetryCountBounded ==
  \A j \in DOMAIN job : job[j].retryCount <= job[j].maxRetries

\* C20: in every reachable state a job row's workerId is set if and only if
\* its status is PROCESSING.
C20_WorkerIdIffProcessing ==
  \A j \in DOMAIN job :
    (job[j].workerId # NoWorker) <=> (job[j].status = "PROCESSING")

(***************************************************************************)
(* ScheduleExecutor: start awaits one checkAndExecute and then sets an     *)
(* interval that starts a checkAndExecute every checkIntervalMs, whether   *)
(* or not the previous one has returned.  exec[e] is one checkAndExecute   *)
(* call; every await of checkAndExecute and executeSchedule is one step.   *)
(* hist records the jobs the executor created: created holds              *)
(* <<scheduleId, nextRunAt of the schedule as found due, jobId>>, linked   *)
(* holds <<jobId, scheduleId>> (the job's scheduleId column).              *)
(***************************************************************************)
NSchedules == 2
MaxSchedJobs == 3
MaxSchedTicks == 2

checkIntervalMs == 10000
\* the cron expressions of the model fire once a minute ('* * * * *')
cronPeriodMs == 60000

\* CronParser.getNextRun: croner's nextRun(from), the first firing instant
\* strictly after `from`
getNextRunInclusive(from) == ((from + cronPeriodMs - 1) \div cronPeriodMs) * cronPeriodMs
getNextRun(from) == ((from \div cronPeriodMs) + 1) * cronPeriodMs

IsFiringInstant(t) == t % cronPeriodMs = 0

\* scheduleRepository.findDueSchedules(now): enabled and nextRunAt <= now,
\* orderBy nextRunAt asc; the rows as read
findDueSchedules(t) ==
  LET due == {sid \in DOMAIN schedule :
                /\ schedule[sid].enabled
                /\ schedule[sid].nextRunAt # NoTime
                /\ schedule[sid].nextRunAt <= t}
      \* rows ordered by nextRunAt, rows of equal nextRunAt by id
      width == NSchedules + 1
      keys == SeqOf({schedule[sid].nextRunAt * width + sid : sid \in due})
      ids == [k \in 1..Len(keys) |-> keys[k] % width]
  IN  [k \in 1..Len(ids) |-> [id |-> ids[k], nextRunAt |-> schedule[ids[k]].nextRunAt]]

ExecIdle == [pc |-> "idle", due |-> <<>>, i |-> 0, jobId |-> 0, t |-> 0,
             outcome |-> "none"]

\* the job template of executeSchedule
ScheduleJobInput(sid) ==
  [priority |-> schedule[sid].jobPriority, maxRetries |-> 3, retryDelay |-> 1000,
   scheduledAt |-> 0, hasHandler |-> TRUE, webhookUrl |-> FALSE]

\* scheduleRepository.markExecuted(id, nextRunAt)
markExecuted(row, nextRunAt, t) ==
  [row EXCEPT !.lastRunAt = t, !.nextRunAt = nextRunAt, !.runCount = @ + 1]

\* scheduleRepository.update(id, {nextRunAt}) of the catch block
updateNextRunKept(row, nextRunAt) == row
updateNextRun(row, nextRunAt) == [row EXCEPT !.nextRunAt = nextRunAt]

\* executeSchedule returned: the for loop of checkAndExecute goes on with the
\* next schedule it read, or checkAndExecute returns
NextSchedule(task, outcome) ==
  IF task.i < Len(task.due)
  THEN [task EXCEPT !.pc = "create", !.i = @ + 1, !.jobId = 0, !.t = now,
                    !.outcome = outcome]
  ELSE [ExecIdle EXCEPT !.outcome = outcome]

\* start: once the awaited first checkAndExecute has returned, setInterval
HistAfter(h, task) ==
  IF h.started = "initial" /\ task.pc = "idle"
  THEN [h EXCEPT !.started = "interval", !.lastFire = now]
  ELSE h

SchedRest == <<worker, dlqRows, delayed, processing, deadletter, cr,
               cancelReq, wk, prom, rec, hookVars>>
SchedOther == <<SchedRest, api>>

\* checkAndExecute: new Date(), findDueSchedules
SxFind(e) ==
  /\ exec[e].pc = "idle"
  /\ \/ /\ hist.started = "no"
        /\ \A o \in DOMAIN exec : exec[o].pc = "idle"
     \/ /\ hist.started = "interval"
        /\ now >= hist.lastFire + checkIntervalMs
  /\ LET due == findDueSchedules(now)
         task == IF Len(due) = 0 THEN ExecIdle
                 ELSE [pc |-> "create", due |-> due, i |-> 1, jobId |-> 0,
                       t |-> now, outcome |-> "none"]
         fired == IF hist.started = "no"
                  THEN [hist EXCEPT !.started = "initial"]
                  ELSE [hist EXCEPT !.lastFire = now]
     IN  /\ exec' = [exec EXCEPT ![e] = task]
         /\ hist' = HistAfter(fired, task)
  /\ UNCHANGED <<now, ticks, job, ready, schedule, SchedOther>>

\* 1. jobRepository.create
SxCreate(e) ==
  /\ exec[e].pc = "create"
  /\ LET id == Cardinality(DOMAIN job) + 1
         cur == exec[e].due[exec[e].i]
     IN  /\ id <= MaxSchedJobs
         /\ job' = [x \in DOMAIN job \cup {id} |->
                      IF x = id THEN NewJobRow(ScheduleJobInput(cur.id), now)
                      ELSE job[x]]
         /\ exec' = [exec EXCEPT ![e].pc = "link", ![e].jobId = id]
         /\ hist' = [hist EXCEPT !.created = @ \cup {<<cur.id, cur.nextRunAt, id>>}]
  /\ UNCHANGED <<now, ticks, ready, schedule, SchedOther>>

\* 2. jobRepository.update(job.id, {scheduleId})
SxLink(e) ==
  /\ exec[e].pc = "link"
  /\ hist' = [hist EXCEPT !.linked = @ \cup {<<exec[e].jobId, exec[e].due[exec[e].i].id>>}]
  /\ exec' = [exec EXCEPT ![e].pc = "enqueue"]
  /\ UNCHANGED <<now, ticks, job, ready, schedule, SchedOther>>

\* 3. queueManager.enqueue(job.id, job.priority)
SxEnqueue(e) ==
  /\ exec[e].pc = "enqueue"
  /\ ready' = enqueue(ready, exec[e].jobId, job[exec[e].jobId].priority, now)
  /\ exec' = [exec EXCEPT ![e].pc = "setQueued"]
  /\ UNCHANGED <<now, ticks, job, schedule, hist, SchedOther>>

\* jobRepository.updateStatus(job.id, 'QUEUED')
SxSetQueued(e) ==
  /\ exec[e].pc = "setQueued"
  /\ job' = [job EXCEPT ![exec[e].jobId].status = "QUEUED"]
  /\ exec' = [exec EXCEPT ![e].pc = "markExecuted"]
  /\ UNCHANGED <<now, ticks, ready, schedule, hist, SchedOther>>

\* 4. getNextRun(cronExpr, timezone) from the current time, markExecuted
SxMarkExecuted(e) ==
  /\ exec[e].pc = "markExecuted"
  /\ LET sid == exec[e].due[exec[e].i].id
         task == NextSchedule(exec[e], "executed")
     IN  /\ schedule' = [schedule EXCEPT
                           ![sid] = markExecuted(@, getNextRun(now), now)]
         /\ exec' = [exec EXCEPT ![e] = task]
         /\ hist' = HistAfter(hist, task)
  /\ UNCHANGED <<now, ticks, job, ready, SchedOther>>

\* one of the awaited calls of the try block rejects: the catch block
SxThrow(e) ==
  /\ exec[e].pc \in {"create", "link", "enqueue", "setQueued", "markExecuted"}
  /\ exec' = [exec EXCEPT ![e].pc = "recover"]
  /\ hist' = [hist EXCEPT !.threw = TRUE]
  /\ UNCHANGED <<now, ticks, job, ready, schedule, SchedOther>>

\* catch: getNextRun, scheduleRepository.update(schedule.id, {nextRunAt})
SxRecover(e) ==
  /\ exec[e].pc = "recover"
  /\ LET sid == exec[e].due[exec[e].i].id
         task == NextSchedule(exec[e], "advanced")
     IN  /\ schedule' = [schedule EXCEPT
                           ![sid] = updateNextRun(@, getNextRun(now))]
         /\ exec' = [exec EXCEPT ![e] = task]
         /\ hist' = HistAfter(hist, task)
  /\ UNCHANGED <<now, ticks, job, ready, SchedOther>>

\* catch: the update rejects too; the inner catch logs and returns
SxRecoverThrows(e) ==
  /\ exec[e].pc = "recover"
  /\ LET task == NextSchedule(exec[e], "stuck")
     IN  /\ exec' = [exec EXCEPT ![e] = task]
         /\ hist' = HistAfter(hist, task)
  /\ UNCHANGED <<now, ticks, job, ready, schedule, SchedOther>>

SxTick ==
  /\ ticks < MaxSchedTicks
  /\ now' = now + checkIntervalMs
  /\ ticks' = ticks + 1
  /\ UNCHANGED <<job, ready, schedule, exec, hist, SchedOther>>

\* schedules created during the minute before their first firing; the
\* executor starts checkIntervalMs before it
SchedInit ==
  /\ now = cronPeriodMs - checkIntervalMs
  /\ ticks = 0
  /\ job = EmptyFn
  /\ worker = EmptyFn
  /\ dlqRows = <<>>
  /\ ready = {}
  /\ delayed = {}
  /\ processing = EmptyFn
  /\ deadletter = {}
  /\ cr = EmptyFn
  /\ cancelReq = {}
  /\ wk = EmptyFn
  /\ prom = EmptyFn
  /\ rec = EmptyFn
  /\ hist = [created |-> {}, linked |-> {}, started |-> "no", lastFire |-> 0,
             threw |-> FALSE]
  /\ webhookEvents = <<>>
  /\ hookp = EmptyFn
  /\ maxAttempts = DefaultMaxAttempts
  /\ schedule = [sid \in 1..NSchedules |->
                   [enabled |-> TRUE, nextRunAt |-> getNextRun(now),
                    lastRunAt |-> NoTime, runCount |-> 0,
                    jobPriority |-> "NORMAL"]]
  /\ exec = [e \in 1..NExecutors |-> ExecIdle]
  /\ api = EmptyFn

SchedNext ==
  \/ \E e \in DOMAIN exec : SxFind(e)
  \/ \E e \in DOMAIN exec : SxCreate(e)
  \/ \E e \in DOMAIN exec : SxLink(e)
  \/ \E e \in DOMAIN exec : SxEnqueue(e)
  \/ \E e \in DOMAIN exec : SxSetQueued(e)
  \/ \E e \in DOMAIN exec : SxMarkExecuted(e)
  \/ \E e \in DOMAIN exec : SxThrow(e)
  \/ \E e \in DOMAIN exec : SxRecover(e)
  \/ \E e \in DOMAIN exec : SxRecoverThrows(e)
  \/ SxTick

ScheduleSpec == SchedInit /\ [][SchedNext]_vars

JobsCreatedFor(sid, firing) ==
  {c \in hist.created : c[1] = sid /\ c[2] = firing}

\* C16: with a single ScheduleExecutor, for each schedule and each due value
\* of nextRunAt at most one job is created by the executor, also when a
\* periodic checkAndExecute starts while an earlier one is still executing
\* schedules (stated for the runs in which no store or queue call rejected).
C16_OneJobPerFiring ==
  ~hist.threw =>
    \A c \in hist.created : Cardinality(JobsCreatedFor(c[1], c[2])) <= 1

\* executeSchedule of task e returns in this step
ExecuteScheduleReturns(e) ==
  /\ exec[e].pc \in {"markExecuted", "recover"}
  /\ exec'[e].pc \in {"create", "idle"}

C21_ResultErrorExclusive ==
  hist = {} =>
    \A j \in DOMAIN job :
      job[j].status \in Terminal
      => ~(job[j].result # Null /\ job[j].error # Null)

\* C25: the write of JobService.cancel is made only on a row whose status at
\* the moment of the write is PENDING, QUEUED or RETRYING, also when a
\* worker's PROCESSING transition falls between cancel's read and its write.
C25_CancelOnlyCancellable ==
  [][\A j \in DOMAIN job :
       (j \in cancelReq /\ j \notin cancelReq')
       => job[j].status \in {"PENDING", "QUEUED", "RETRYING"}]_vars

LoadedRowProcessable(w) ==
  /\ wk[w].jobId \in DOMAIN job
  /\ job[wk[w].jobId].status \in {"QUEUED", "RETRYING"}

C28_FailedAfterMaxAttemptsSends ==
  \A k \in 1..Len(webhookEvents) :
    /\ webhookEvents[k].sends <= webhookEvents[k].maxAttempts
    /\ webhookEvents[k].status = "failed"
       => webhookEvents[k].sends >= webhookEvents[k].maxAttempts

\* C29: in every reachable state of a WebhookEvent, status = success implies
\* a lastStatusCode in [200, 300), and status = failed holds exactly when
\* attempts >= maxAttempts and the event did not succeed.
C29_EventStatusInvariant ==
  \A k \in 1..Len(webhookEvents) :
    LET e == webhookEvents[k]
    IN  /\ e.status = "success"
           => (e.lastStatusCode >= 200 /\ e.lastStatusCode < 300)
        /\ e.status = "failed"
           <=> (e.attempts >= e.maxAttempts /\ e.status # "success")

\* C39: once a WebhookEvent's status is success, no later operation
\* (markFailed or updateAttempt of a retry-processor tick that read the
\* event earlier, of a second retry processor, or of the inline attempt)
\* changes its status or its attempts.
C39_SuccessAbsorbing ==
  [][\A k \in 1..Len(webhookEvents) :
       webhookEvents[k].status = "success"
       => /\ webhookEvents'[k].status = "success"
          /\ webhookEvents'[k].attempts = webhookEvents[k].attempts]_vars

(***************************************************************************)
(* Service calls of the HTTP API (specification UpdateSpec).  api[r] is   *)
(* one call: op names the method, pc its position, id the row it read and *)
(* arg the value it is about to write.                                    *)
(***************************************************************************)
ApiIdle(op) == [op |-> op, pc |-> "idle", id |-> 0, arg |-> 0]
ApiDone(call) == [call EXCEPT !.pc = "done"]

\* UpdateJobSchema: scheduledAt is a date or null
UpdateInputs == {[scheduledAt |-> 0], [scheduledAt |-> now + 1000]}

\* JobService.update: findById and the check of job.status
UpdateFind(r, j, input) ==
  /\ api[r].op = "update" /\ api[r].pc = "idle"
  /\ j \in DOMAIN job
  /\ api' = [api EXCEPT ![r] =
               IF job[j].status \in {"PROCESSING", "COMPLETED", "FAILED", "CANCELLED"}
               THEN ApiDone(@)
               ELSE [@ EXCEPT !.pc = "write", !.id = j, !.arg = input.scheduledAt]]
  /\ UNCHANGED <<now, ticks, job, worker, dlqRows, ready, delayed, processing,
                 deadletter, cr, cancelReq, wk, prom, rec, hist, hookVars,
                 schedVars>>

\* return this.jobRepository.update(id, input): the row only
UpdateWrite(r) ==
  /\ api[r].op = "update" /\ api[r].pc = "write"
  /\ job' = [job EXCEPT ![api[r].id].scheduledAt = api[r].arg]
  /\ api' = [api EXCEPT ![r] = ApiDone(@)]
  /\ UNCHANGED <<now, ticks, worker, dlqRows, ready, delayed, processing,
                 deadletter, cr, cancelReq, wk, prom, rec, hist, hookVars,
                 schedVars>>

UpdateInit ==
  /\ now = 0
  /\ ticks = 0
  /\ job = EmptyFn
  /\ worker = EmptyFn
  /\ dlqRows = <<>>
  /\ ready = {}
  /\ delayed = {}
  /\ processing = EmptyFn
  /\ deadletter = {}
  /\ cr = EmptyFn
  /\ cancelReq = {}
  /\ wk = [w \in {1} |-> WkOff]
  /\ prom = [e \in {1} |-> PromIdle]
  /\ rec = EmptyFn
  /\ hist = {}
  /\ webhookEvents = <<>>
  /\ hookp = EmptyFn
  /\ maxAttempts = DefaultMaxAttempts
  /\ schedule = EmptyFn
  /\ exec = EmptyFn
  /\ api = [r \in {1} |-> ApiIdle("update")]

UpdateNext ==
  \/ \E input \in CreateInputs : CreateRow(input)
  \/ \E j \in DOMAIN cr : CreateEnqueue(j)
  \/ \E j \in DOMAIN cr : CreateSetQueued(j)
  \/ \E r \in DOMAIN api, j \in DOMAIN job, input \in UpdateInputs : UpdateFind(r, j, input)
  \/ \E r \in DOMAIN api : UpdateWrite(r)
  \/ \E w \in DOMAIN wk : WStart(w)
  \/ \E w \in DOMAIN wk : WHeartbeat(w)
  \/ \E w \in DOMAIN wk : WDequeue(w)
  \/ \E w \in DOMAIN wk : WLoad(w)
  \/ \E w \in DOMAIN wk : WSetActive(w)
  \/ \E w \in DOMAIN wk : WSetProcessing(w)
  \/ \E w \in DOMAIN wk : WMarkProcessing(w)
  \/ \E w \in DOMAIN wk : WHandleSuccess(w)
  \/ \E w \in DOMAIN wk : WSuccessMark(w)
  \/ \E w \in DOMAIN wk : WScheduleRetry(w)
  \/ \E w \in DOMAIN wk : WRequeueAdd(w)
  \/ \E w \in DOMAIN wk : WRequeueDel(w)
  \/ \E w \in DOMAIN wk : WHandleFailure(w)
  \/ \E w \in DOMAIN wk : WNoHandler(w)
  \/ \E w \in DOMAIN wk : WDlqAdd(w)
  \/ \E w \in DOMAIN wk : WDlqDel(w)
  \/ \E w \in DOMAIN wk : WDlqRow(w)
  \/ \E w \in DOMAIN wk : WFinish(w)
  \/ \E e \in DOMAIN prom : PromoteRead(e)
  \/ \E e \in DOMAIN prom : PromoteEnqueue(e)
  \/ \E e \in DOMAIN prom : PromoteRem(e)
  \/ \E d \in TickDurations : Tick(d)

UpdateSpec == UpdateInit /\ [][UpdateNext]_vars

\* no create and no update of job j is in flight
JobCallsReturned(j) ==
  /\ j \in DOMAIN cr /\ cr[j].pc = "done"
  /\ \A r \in DOMAIN api : api[r].id = j => api[r].pc = "done"

\* C22: once JobService.create and JobService.update have returned, a QUEUED
\* job whose scheduledAt is later than the current time has its id in the
\* delayed index and not in the ready index.
C22_FutureScheduledInDelayed ==
  \A j \in DOMAIN job :
    (JobCallsReturned(j) /\ job[j].status = "QUEUED" /\ job[j].scheduledAt > now)
    => ((\E m \in ZMembers(delayed) : MemberJobId(m) = j) /\ ~InReady(j))

(***************************************************************************)
(* ScheduleService.disable and ScheduleService.trigger beside one         *)
(* ScheduleExecutor (specification ScheduleApiSpec).  A manual trigger    *)
(* records the job it created in hist.created with NoTime as the firing.  *)
(***************************************************************************)
\* scheduleRepository.setEnabled(id, enabled, nextRunAt)
setEnabled(row, enabled, nextRunAt) ==
  [row EXCEPT !.enabled = enabled, !.nextRunAt = nextRunAt]

\* disable: findById, the check of schedule.enabled
DisableFind(r, sid) ==
  /\ api[r].op = "disable" /\ api[r].pc = "idle"
  /\ sid \in DOMAIN schedule
  /\ api' = [api EXCEPT ![r] =
               IF ~schedule[sid].enabled
               THEN ApiDone(@)
               ELSE [@ EXCEPT !.pc = "write", !.id = sid]]
  /\ UNCHANGED <<now, ticks, job, ready, schedule, exec, hist, SchedRest>>

\* disable: setEnabled(id, false, null)
DisableWrite(r) ==
  /\ api[r].op = "disable" /\ api[r].pc = "write"
  /\ schedule' = [schedule EXCEPT ![api[r].id] = setEnabled(@, FALSE, NoTime)]
  /\ api' = [api EXCEPT ![r] = ApiDone(@)]
  /\ UNCHANGED <<now, ticks, job, ready, exec, hist, SchedRest>>

\* trigger: findById
TriggerFind(r, sid) ==
  /\ api[r].op = "trigger" /\ api[r].pc = "idle"
  /\ sid \in DOMAIN schedule
  /\ api' = [api EXCEPT ![r].pc = "create", ![r].id = sid]
  /\ UNCHANGED <<now, ticks, job, ready, schedule, exec, hist, SchedRest>>

\* trigger: jobRepository.create from the template; arg is the new job's id
TriggerCreate(r) ==
  /\ api[r].op = "trigger" /\ api[r].pc = "create"
  /\ LET id == Cardinality(DOMAIN job) + 1
     IN  /\ id <= MaxSchedJobs
         /\ job' = [x \in DOMAIN job \cup {id} |->
                      IF x = id THEN NewJobRow(ScheduleJobInput(api[r].id), now)
                      ELSE job[x]]
         /\ api' = [api EXCEPT ![r].pc = "link", ![r].arg = id]
         /\ hist' = [hist EXCEPT !.created = @ \cup {<<api[r].id, NoTime, id>>}]
  /\ UNCHANGED <<now, ticks, ready, schedule, exec, SchedRest>>

\* trigger: jobRepository.update(job.id, {scheduleId})
TriggerLink(r) ==
  /\ api[r].op = "trigger" /\ api[r].pc = "link"
  /\ hist' = [hist EXCEPT !.linked = @ \cup {<<api[r].arg, api[r].id>>}]
  /\ api' = [api EXCEPT ![r].pc = "enqueue"]
  /\ UNCHANGED <<now, ticks, job, ready, schedule, exec, SchedRest>>

\* trigger: queueManager.enqueue(job.id, job.priority)
TriggerEnqueue(r) ==
  /\ api[r].op = "trigger" /\ api[r].pc = "enqueue"
  /\ ready' = enqueue(ready, api[r].arg, job[api[r].arg].priority, now)
  /\ api' = [api EXCEPT ![r].pc = "setQueued"]
  /\ UNCHANGED <<now, ticks, job, schedule, exec, hist, SchedRest>>

\* trigger: return jobRepository.updateStatus(job.id, 'QUEUED')
TriggerSetQueued(r) ==
  /\ api[r].op = "trigger" /\ api[r].pc = "setQueued"
  /\ job' = [job EXCEPT ![api[r].arg].status = "QUEUED"]
  /\ api' = [api EXCEPT ![r] = ApiDone(@)]
  /\ UNCHANGED <<now, ticks, ready, schedule, exec, hist, SchedRest>>

\* ScheduleService.create: nextRunAt = enabled ? getNextRun : null
NewSchedule(enabled, t) ==
  [enabled |-> enabled,
   nextRunAt |-> IF enabled THEN getNextRun(t) ELSE NoTime,
   lastRunAt |-> NoTime, runCount |-> 0, jobPriority |-> "NORMAL"]

\* one schedule, created enabled or disabled during the minute before its
\* first firing; one executor, one disable call and one trigger call
ScheduleApiInit ==
  /\ now = cronPeriodMs - checkIntervalMs
  /\ ticks = 0
  /\ job = EmptyFn
  /\ worker = EmptyFn
  /\ dlqRows = <<>>
  /\ ready = {}
  /\ delayed = {}
  /\ processing = EmptyFn
  /\ deadletter = {}
  /\ cr = EmptyFn
  /\ cancelReq = {}
  /\ wk = EmptyFn
  /\ prom = EmptyFn
  /\ rec = EmptyFn
  /\ hist = [created |-> {}, linked |-> {}, started |-> "no", lastFire |-> 0,
             threw |-> FALSE]
  /\ webhookEvents = <<>>
  /\ hookp = EmptyFn
  /\ maxAttempts = DefaultMaxAttempts
  /\ \E enabled \in BOOLEAN :
       schedule = [sid \in {1} |-> NewSchedule(enabled, now)]
  /\ exec = [e \in {1} |-> ExecIdle]
  /\ api = [r \in {1, 2} |-> IF r = 1 THEN ApiIdle("disable") ELSE ApiIdle("trigger")]

ScheduleApiNext ==
  \/ \E e \in DOMAIN exec : SxFind(e)
  \/ \E e \in DOMAIN exec : SxCreate(e)
  \/ \E e \in DOMAIN exec : SxLink(e)
  \/ \E e \in DOMAIN exec : SxEnqueue(e)
  \/ \E e \in DOMAIN exec : SxSetQueued(e)
  \/ \E e \in DOMAIN exec : SxMarkExecuted(e)
  \/ \E e \in DOMAIN exec : SxThrow(e)
  \/ \E e \in DOMAIN exec : SxRecover(e)
  \/ \E e \in DOMAIN exec : SxRecoverThrows(e)
  \/ \E r \in DOMAIN api, sid \in DOMAIN schedule : DisableFind(r, sid)
  \/ \E r \in DOMAIN api : DisableWrite(r)
  \/ \E r \in DOMAIN api, sid \in DOMAIN schedule : TriggerFind(r, sid)
  \/ \E r \in DOMAIN api : TriggerCreate(r)
  \/ \E r \in DOMAIN api : TriggerLink(r)
  \/ \E r \in DOMAIN api : TriggerEnqueue(r)
  \/ \E r \in DOMAIN api : TriggerSetQueued(r)
  \/ SxTick

ScheduleApiSpec == ScheduleApiInit /\ [][ScheduleApiNext]_vars

\* C23: in every reachable state a schedule with enabled = false has
\* nextRunAt = null, also when disable interleaves with an executor tick
\* that has already read the schedule as due.
C23_DisabledHasNoNextRun ==
  \A sid \in DOMAIN schedule :
    ~schedule[sid].enabled => schedule[sid].nextRunAt = NoTime

\* no checkAndExecute and no service call is in flight
ScheduleCallsReturned ==
  /\ \A e \in DOMAIN exec : exec[e].pc = "idle"
  /\ \A r \in DOMAIN api : api[r].pc \in {"idle", "done"}

JobsCreatedFrom(sid) == {c \in hist.created : c[1] = sid}

\* C24: once the executor and the service calls have returned, a schedule's
\* runCount equals the number of job rows created from it, by the executor
\* or by a manual trigger.
C24_RunCountIsJobsCreated ==
  ScheduleCallsReturned =>
    \A sid \in DOMAIN schedule :
      schedule[sid].runCount = Cardinality(JobsCreatedFrom(sid))

(***************************************************************************)
(* Shutdown of a worker process (specification StopSpec).  The handler of *)
(* SIGTERM and SIGINT awaits Worker.stop and calls process.exit(0);       *)
(* api[r] is one delivered signal, id the worker whose process got it.    *)
(***************************************************************************)
\* shutdown -> stop(): running was true; running = false, clearInterval of
\* the heartbeat and promote timers
WSignal(r, w) ==
  /\ api[r].op = "stop" /\ api[r].pc = "idle"
  /\ w \in DOMAIN wk /\ wk[w].pc \notin {"off", "exited"}
  /\ api' = [api EXCEPT ![r].pc = "stopRow", ![r].id = w]
  /\ UNCHANGED <<now, ticks, job, worker, dlqRows, ready, delayed, processing,
                 deadletter, cr, cancelReq, wk, prom, rec, hist, hookVars,
                 schedVars>>

\* stop(): await this.workerRepository.stop(this.workerId)
WStopRow(r) ==
  /\ api[r].op = "stop" /\ api[r].pc = "stopRow"
  /\ worker' = [worker EXCEPT ![api[r].id] = stopUpdate(@, now)]
  /\ api' = [api EXCEPT ![r].pc = "exit"]
  /\ UNCHANGED <<now, ticks, job, dlqRows, ready, delayed, processing,
                 deadletter, cr, cancelReq, wk, prom, rec, hist, hookVars,
                 schedVars>>

\* process.exit(0): the loop of this process takes no further step
WExit(r) ==
  /\ api[r].op = "stop" /\ api[r].pc = "exit"
  /\ wk' = [wk EXCEPT ![api[r].id].pc = "exited"]
  /\ api' = [api EXCEPT ![r] = ApiDone(@)]
  /\ UNCHANGED <<now, ticks, job, worker, dlqRows, ready, delayed, processing,
                 deadletter, cr, cancelReq, prom, rec, hist, hookVars,
                 schedVars>>

StopInit ==
  /\ now = 0
  /\ ticks = 0
  /\ job = EmptyFn
  /\ worker = EmptyFn
  /\ dlqRows = <<>>
  /\ ready = {}
  /\ delayed = {}
  /\ processing = EmptyFn
  /\ deadletter = {}
  /\ cr = EmptyFn
  /\ cancelReq = {}
  /\ wk = [w \in {1} |-> WkOff]
  /\ prom = [e \in {1} |-> PromIdle]
  /\ rec = [r \in {1} |-> RecIdle]
  /\ hist = {}
  /\ webhookEvents = <<>>
  /\ hookp = EmptyFn
  /\ maxAttempts = DefaultMaxAttempts
  /\ schedule = EmptyFn
  /\ exec = EmptyFn
  /\ api = [r \in {1} |-> ApiIdle("stop")]

StopNext ==
  \/ \E input \in CreateInputs : CreateRow(input)
  \/ \E j \in DOMAIN cr : CreateEnqueue(j)
  \/ \E j \in DOMAIN cr : CreateSetQueued(j)
  \/ \E r \in DOMAIN api, w \in DOMAIN wk : WSignal(r, w)
  \/ \E r \in DOMAIN api : WStopRow(r)
  \/ \E r \in DOMAIN api : WExit(r)
  \/ \E w \in DOMAIN wk : WStart(w)
  \/ \E w \in DOMAIN wk : WHeartbeat(w)
  \/ \E w \in DOMAIN wk : WDequeue(w)
  \/ \E w \in DOMAIN wk : WLoad(w)
  \/ \E w \in DOMAIN wk : WSetActive(w)
  \/ \E w \in DOMAIN wk : WSetProcessing(w)
  \/ \E w \in DOMAIN wk : WMarkProcessing(w)
  \/ \E w \in DOMAIN wk : WHandleSuccess(w)
  \/ \E w \in DOMAIN wk : WSuccessMark(w)
  \/ \E w \in DOMAIN wk : WScheduleRetry(w)
  \/ \E w \in DOMAIN wk : WRequeueAdd(w)
  \/ \E w \in DOMAIN wk : WRequeueDel(w)
  \/ \E w \in DOMAIN wk : WHandleFailure(w)
  \/ \E w \in DOMAIN wk : WNoHandler(w)
  \/ \E w \in DOMAIN wk : WDlqAdd(w)
  \/ \E w \in DOMAIN wk : WDlqDel(w)
  \/ \E w \in DOMAIN wk : WDlqRow(w)
  \/ \E w \in DOMAIN wk : WFinish(w)
  \/ \E e \in DOMAIN prom : PromoteRead(e)
  \/ \E e \in DOMAIN prom : PromoteEnqueue(e)
  \/ \E e \in DOMAIN prom : PromoteRem(e)
  \/ \E r \in DOMAIN rec : RecFindStale(r)
  \/ \E r \in DOMAIN rec : RecFindOrphans(r)
  \/ \E r \in DOMAIN rec : RecJobUpdate(r)
  \/ \E r \in DOMAIN rec : RecJobMarkCompleted(r)
  \/ \E r \in DOMAIN rec : RecJobRequeueAdd(r)
  \/ \E r \in DOMAIN rec : RecJobRequeueDel(r)
  \/ \E r \in DOMAIN rec : RecStopWorker(r)
  \/ \E d \in TickDurations : Tick(d)

StopSpec == StopInit /\ [][StopNext]_vars

\* the process of worker w has exited
Exited(w) == w \in DOMAIN wk /\ wk[w].pc = "exited"

\* C30: when the process of a worker exits after SIGTERM or SIGINT, no job
\* is PROCESSING under that worker: the job that was in flight has reached
\* COMPLETED, RETRYING or FAILED before the row was marked stopped and the
\* process exited.
C30_NoJobLeftProcessing ==
  \A w \in DOMAIN wk :
    Exited(w) =>
      \A j \in DOMAIN job :
        ~(job[j].status = "PROCESSING" /\ job[j].workerId = w)

(***************************************************************************)
(* Ownership of a job in flight (specification RetrySpec)                 *)
(***************************************************************************)
\* worker w has written PROCESSING for job j and process has not yet written
\* the outcome: the handler of j is running in w
HandlerRunning(w, j) ==
  /\ w \in DOMAIN wk
  /\ wk[w].jobId = j
  /\ wk[w].pc \in {"markProcessing", "handler"}

\* C32: at any instant at most one worker is executing the handler of a given
\* job: two workers never hold the same job in PROCESSING at the same time.
C32_HandlerMutualExclusion ==
  \A j \in DOMAIN job : \A w1, w2 \in DOMAIN wk :
    (HandlerRunning(w1, j) /\ HandlerRunning(w2, j)) => w1 = w2

(***************************************************************************)
(* Retry backoff (specification BackoffSpec): one worker process, a job   *)
(* whose handler always throws and that has three retries, a base delay   *)
(* that stays under maxDelay and one that reaches it.                     *)
(***************************************************************************)
BackoffInputs ==
  {[priority |-> "NORMAL", maxRetries |-> 3, retryDelay |-> d,
    scheduledAt |-> 0, hasHandler |-> TRUE, webhookUrl |-> FALSE] :
     d \in {1000, 20000}}

BackoffInit ==
  /\ now = 0
  /\ ticks = 0
  /\ job = EmptyFn
  /\ worker = EmptyFn
  /\ dlqRows = <<>>
  /\ ready = {}
  /\ delayed = {}
  /\ processing = EmptyFn
  /\ deadletter = {}
  /\ cr = EmptyFn
  /\ cancelReq = {}
  /\ wk = [w \in {1} |-> WkOff]
  /\ prom = [e \in {1} |-> PromIdle]
  /\ rec = EmptyFn
  /\ hist = {}
  /\ ExtIdle

BackoffNext ==
  \/ \E input \in BackoffInputs : CreateRow(input)
  \/ \E j \in DOMAIN cr : CreateEnqueue(j)
  \/ \E j \in DOMAIN cr : CreateSetQueued(j)
  \/ \E w \in DOMAIN wk : WStart(w)
  \/ \E w \in DOMAIN wk : WDequeue(w)
  \/ \E w \in DOMAIN wk : WLoad(w)
  \/ \E w \in DOMAIN wk : WSetActive(w)
  \/ \E w \in DOMAIN wk : WSetProcessing(w)
  \/ \E w \in DOMAIN wk : WMarkProcessing(w)
  \/ \E w \in DOMAIN wk : WScheduleRetry(w)
  \/ \E w \in DOMAIN wk : WHandleFailure(w)
  \/ \E w \in DOMAIN wk : WRequeueAdd(w)
  \/ \E w \in DOMAIN wk : WRequeueDel(w)
  \/ \E w \in DOMAIN wk : WDlqAdd(w)
  \/ \E w \in DOMAIN wk : WDlqDel(w)
  \/ \E w \in DOMAIN wk : WDlqRow(w)
  \/ \E w \in DOMAIN wk : WFinish(w)
  \/ \E e \in DOMAIN prom : PromoteRead(e)
  \/ \E e \in DOMAIN prom : PromoteEnqueue(e)
  \/ \E e \in DOMAIN prom : PromoteRem(e)
  \/ LiveTick

BackoffSpec == BackoffInit /\ [][BackoffNext]_vars

\* min(retryDelay * 2^k, 60000)
BackoffMs(retryDelay, k) ==
  IF retryDelay * (2 ^ k) < 60000 THEN retryDelay * (2 ^ k) ELSE 60000

\* the score of job j in the delayed index
DelayedScores(dly, j) == {m.score : m \in {x \in dly : MemberJobId(x.value) = j}}

\* C33: when the handler fails on a job with retryCount = k < maxRetries, the
\* job is put into the delayed index with fire time now + min(retryDelay *
\* 2^k, 60000); the delays of the successive retries of a job are
\* non-decreasing and never exceed 60000 ms.
C33_RetryBackoff ==
  /\ [][\A w \in DOMAIN wk :
          (wk[w].pc = "requeueAdd" /\ wk'[w].pc = "requeueDel")
          => LET j == wk[w].jobId
                 k == wk[w].job.retryCount
             IN  /\ k < job[j].maxRetries
                 /\ job[j].retryCount = k + 1
                 /\ DelayedScores(delayed', j)
                      = {now + BackoffMs(job[j].retryDelay, k)}]_vars
  /\ [](\A j \in DOMAIN job : \A k \in 0..(job[j].maxRetries - 1) :
          /\ calculateRetryDelay(k, job[j].retryDelay) <= 60000
          /\ k > 0 => calculateRetryDelay(k - 1, job[j].retryDelay)
                        <= calculateRetryDelay(k, job[j].retryDelay))

\* the third retry of a job with base delay 20000 has been put into the
\* delayed index, 60000 ms ahead (80000 capped)
C33_Witness ==
  \E w \in DOMAIN wk :
    /\ wk[w].pc = "requeueDel"
    /\ wk[w].job.retryCount = 2
    /\ job[wk[w].jobId].retryDelay = 20000
    /\ DelayedScores(delayed, wk[w].jobId) = {now + 60000}

\* ---------------------------------------------------------------------
\* The DeadLetterJob row (specification RetrySpec)

\* C40: the DeadLetterJob row written when a job fails permanently records
\* as workerId the worker that ran the final failing attempt (the workerId
\* passed to JobProcessor.process), on a first attempt and after retries.
C40_DeadLetterRowNamesWorker ==
  [][\A w \in DOMAIN wk :
       (wk[w].pc = "dlqRow" /\ wk'[w].pc # "dlqRow")
       => /\ Len(dlqRows') = Len(dlqRows) + 1
          /\ dlqRows'[Len(dlqRows')].originalJobId = wk[w].jobId
          /\ dlqRows'[Len(dlqRows')].workerId = w]_vars

\* C34: a job waiting in the delayed index with fire time f is not in the
\* ready index (so dequeue cannot return it) before f; it leaves the delayed
\* index only once f has been reached, and the promoteDelayedJobs run that
\* takes it puts it into the ready index with its own priority.
C34_DelayedExecution ==
  /\ [](\A m \in delayed :
          m.score > now => MemberJobId(m.value) \notin ZMembers(ready))
  /\ [][\A m \in delayed :
          m.value \notin ZMembers(delayed') => m.score <= now]_vars
  /\ [][\A e \in DOMAIN prom :
          (prom[e].pc = "enqueue" /\ prom'[e].pc = "zrem")
          => LET entry == prom[e].readyJobs[prom[e].i]
             IN  \E x \in ready' :
                   /\ x.value = MemberJobId(entry)
                   /\ x.score = calculateScore(MemberPriority(entry), now)]_vars

(***************************************************************************)
(* DeadLetterService.retry beside the worker processes (specification     *)
(* DeadLetterSpec).  A DeadLetterJob row is named by its position in      *)
(* dlqRows; a deleted row leaves DeletedRow at its position.  api[r] of a *)
(* retry call holds the row as findById returned it (dead), the id of the *)
(* job it created (arg) and the index member removeFromDLQ found (entry). *)
(***************************************************************************)
MaxDlqJobs == 3

DeletedRow ==
  [originalJobId |-> 0, jobPriority |-> "NORMAL", failureReason |-> "deleted",
   failureCount |-> 0, workerId |-> NoWorker, failedAt |-> 0]

NoEntry == [value |-> [jobId |-> 0, reason |-> "none", failedAt |-> 0], score |-> 0]

DlqRetryIdle ==
  [op |-> "retry", pc |-> "idle", id |-> 0, arg |-> 0, dead |-> DeletedRow,
   entry |-> NoEntry, threw |-> FALSE]

\* the job that retry creates: name, type, payload and priority of the dead
\* letter; every other column takes the default of the schema
DlqRetryInput(dead) ==
  [priority |-> dead.jobPriority, maxRetries |-> 3, retryDelay |-> 1000,
   scheduledAt |-> 0, hasHandler |-> job[dead.originalJobId].hasHandler,
   webhookUrl |-> FALSE]

\* removeFromDLQ: the first entry of ZRANGE 0 -1 whose jobId matches
FirstDlqEntry(dlq, jobId) ==
  LET match == {m \in dlq : m.value.jobId = jobId}
  IN  IF match = {} THEN NoEntry
      ELSE CHOOSE m \in match : \A o \in match : m.score <= o.score

DlqOther == <<now, ticks, worker, processing, delayed, cr, cancelReq, wk, prom,
              rec, hist, hookVars, schedVars>>

\* retry: deadLetterRepository.findById(id); NotFoundError without the row
DlqRetryFind(r, id) ==
  /\ api[r].op = "retry" /\ api[r].pc = "idle"
  /\ id \in 1..Len(dlqRows)
  /\ api' = [api EXCEPT ![r] =
               IF dlqRows[id] = DeletedRow
               THEN [@ EXCEPT !.pc = "done", !.id = id, !.threw = TRUE]
               ELSE [@ EXCEPT !.pc = "create", !.id = id, !.dead = dlqRows[id]]]
  /\ UNCHANGED <<job, ready, dlqRows, deadletter, DlqOther>>

\* retry: jobRepository.create({name, type, payload, priority})
DlqRetryCreate(r) ==
  /\ api[r].op = "retry" /\ api[r].pc = "create"
  /\ LET id == Cardinality(DOMAIN job) + 1
     IN  /\ id <= MaxDlqJobs
         /\ job' = [x \in DOMAIN job \cup {id} |->
                      IF x = id THEN NewJobRow(DlqRetryInput(api[r].dead), now)
                      ELSE job[x]]
         /\ api' = [api EXCEPT ![r].pc = "enqueue", ![r].arg = id]
  /\ UNCHANGED <<ready, dlqRows, deadletter, DlqOther>>

\* retry: queueManager.enqueue(newJob.id, newJob.priority)
DlqRetryEnqueue(r) ==
  /\ api[r].op = "retry" /\ api[r].pc = "enqueue"
  /\ ready' = enqueue(ready, api[r].arg, job[api[r].arg].priority, now)
  /\ api' = [api EXCEPT ![r].pc = "setQueued"]
  /\ UNCHANGED <<job, dlqRows, deadletter, DlqOther>>

\* retry: jobRepository.updateStatus(newJob.id, 'QUEUED')
DlqRetrySetQueued(r) ==
  /\ api[r].op = "retry" /\ api[r].pc = "setQueued"
  /\ job' = [job EXCEPT ![api[r].arg].status = "QUEUED"]
  /\ api' = [api EXCEPT ![r].pc = "delete"]
  /\ UNCHANGED <<ready, dlqRows, deadletter, DlqOther>>

\* retry: deadLetterRepository.delete(id); prisma rejects the delete of a
\* row that is no longer there, and retry rejects with it
DlqRetryDelete(r) ==
  /\ api[r].op = "retry" /\ api[r].pc = "delete"
  /\ IF dlqRows[api[r].id] = DeletedRow
     THEN /\ api' = [api EXCEPT ![r].pc = "done", ![r].threw = TRUE]
          /\ dlqRows' = dlqRows
     ELSE /\ api' = [api EXCEPT ![r].pc = "zrange"]
          /\ dlqRows' = [dlqRows EXCEPT ![api[r].id] = DeletedRow]
  /\ UNCHANGED <<job, ready, deadletter, DlqOther>>

\* removeFromDLQ(originalJobId): ZRANGE dlq 0 -1 and the search for the
\* first entry of this job; without one it returns false
DlqRetryRange(r) ==
  /\ api[r].op = "retry" /\ api[r].pc = "zrange"
  /\ LET entry == FirstDlqEntry(deadletter, api[r].dead.originalJobId)
     IN  api' = [api EXCEPT ![r].entry = entry,
                            ![r].pc = IF entry = NoEntry THEN "done" ELSE "zrem"]
  /\ UNCHANGED <<job, ready, dlqRows, deadletter, DlqOther>>

\* removeFromDLQ: ZREM dlq entry, return true
DlqRetryRem(r) ==
  /\ api[r].op = "retry" /\ api[r].pc = "zrem"
  /\ deadletter' = deadletter \ {api[r].entry}
  /\ api' = [api EXCEPT ![r].pc = "done"]
  /\ UNCHANGED <<job, ready, dlqRows, DlqOther>>

\* a job without retries whose handler throws, two worker processes, two
\* retry calls
DlqInputs ==
  {[priority |-> "NORMAL", maxRetries |-> 0, retryDelay |-> 1000,
    scheduledAt |-> 0, hasHandler |-> TRUE, webhookUrl |-> FALSE]}

DlqInit ==
  /\ now = 0
  /\ ticks = 0
  /\ job = EmptyFn
  /\ worker = EmptyFn
  /\ dlqRows = <<>>
  /\ ready = {}
  /\ delayed = {}
  /\ processing = EmptyFn
  /\ deadletter = {}
  /\ cr = EmptyFn
  /\ cancelReq = {}
  /\ wk = [w \in {1} |-> WkOff]
  /\ prom = [e \in {1} |-> PromIdle]
  /\ rec = EmptyFn
  /\ hist = {}
  /\ webhookEvents = <<>>
  /\ hookp = EmptyFn
  /\ maxAttempts = DefaultMaxAttempts
  /\ schedule = EmptyFn
  /\ exec = EmptyFn
  /\ api = [r \in {1} |-> DlqRetryIdle]

DlqNext ==
  \/ \E input \in DlqInputs : CreateRow(input)
  \/ \E j \in DOMAIN cr : CreateEnqueue(j)
  \/ \E j \in DOMAIN cr : CreateSetQueued(j)
  \/ \E r \in DOMAIN api, id \in 1..Len(dlqRows) : DlqRetryFind(r, id)
  \/ \E r \in DOMAIN api : DlqRetryCreate(r)
  \/ \E r \in DOMAIN api : DlqRetryEnqueue(r)
  \/ \E r \in DOMAIN api : DlqRetrySetQueued(r)
  \/ \E r \in DOMAIN api : DlqRetryDelete(r)
  \/ \E r \in DOMAIN api : DlqRetryRange(r)
  \/ \E r \in DOMAIN api : DlqRetryRem(r)
  \/ \E w \in DOMAIN wk : WStart(w)
  \/ \E w \in DOMAIN wk : WDequeue(w)
  \/ \E w \in DOMAIN wk : WLoad(w)
  \/ \E w \in DOMAIN wk : WSetActive(w)
  \/ \E w \in DOMAIN wk : WSetProcessing(w)
  \/ \E w \in DOMAIN wk : WMarkProcessing(w)
  \/ \E w \in DOMAIN wk : WHandleSuccess(w)
  \/ \E w \in DOMAIN wk : WSuccessMark(w)
  \/ \E w \in DOMAIN wk : WScheduleRetry(w)
  \/ \E w \in DOMAIN wk : WHandleFailure(w)
  \/ \E w \in DOMAIN wk : WRequeueAdd(w)
  \/ \E w \in DOMAIN wk : WRequeueDel(w)
  \/ \E w \in DOMAIN wk : WDlqAdd(w)
  \/ \E w \in DOMAIN wk : WDlqDel(w)
  \/ \E w \in DOMAIN wk : WDlqRow(w)
  \/ \E w \in DOMAIN wk : WFinish(w)
  \/ \E e \in DOMAIN prom : PromoteRead(e)
  \/ \E e \in DOMAIN prom : PromoteEnqueue(e)
  \/ \E e \in DOMAIN prom : PromoteRem(e)
  \/ LiveTick

DeadLetterSpec == DlqInit /\ [][DlqNext]_vars

\* retry call r has returned the job it queued
DlqRetryReturned(r) ==
  api[r].op = "retry" /\ api[r].pc = "done" /\ ~api[r].threw

\* no worker has taken job j out of the ready index and started on it
NotStarted(j) ==
  /\ job[j].status \in {"PENDING", "QUEUED"}
  /\ \A w \in DOMAIN wk : wk[w].jobId # j

\* C35: after DeadLetterService.retry(id) on an existing entry the
\* DeadLetterJob row is deleted, no member of the deadletter index carries
\* originalJobId, the original FAILED row is as it was, and the one new job
\* (same priority, retryCount 0) is QUEUED with its id in the ready index
\* until a worker starts on it.
C35_DeadLetterRetry ==
  \A r \in DOMAIN api :
    DlqRetryReturned(r) =>
      LET new == api[r].arg
          original == api[r].dead.originalJobId
      IN  /\ dlqRows[api[r].id] = DeletedRow
          /\ \A m \in deadletter : m.value.jobId # original
          /\ job[original].status = "FAILED"
          /\ job[original].retryCount = 0
          /\ job[new].priority = api[r].dead.jobPriority
          /\ NotStarted(new)
             => /\ job[new].status = "QUEUED"
                /\ job[new].retryCount = 0
                /\ InReady(new)

(***************************************************************************)
(* Jobs and their workers across the whole service (specification Spec)   *)
(***************************************************************************)
\* no operation on job j is in progress: its creator has returned, no
\* cancel is pending, no worker holds it, no promoter run has read its
\* delayed entry and no recovery cycle has listed it
NoOperationOn(j) ==
  /\ j \in DOMAIN cr => cr[j].pc = "done"
  /\ j \notin cancelReq
  /\ \A w \in DOMAIN wk : wk[w].jobId # j
  /\ \A e \in DOMAIN prom :
       \A k \in 1..Len(prom[e].readyJobs) : MemberJobId(prom[e].readyJobs[k]) # j
  /\ \A r \in DOMAIN rec :
       \A k \in 1..Len(rec[r].orphanJobs) : rec[r].orphanJobs[k].id # j
  /\ \A r \in DOMAIN api : api[r].pc \in {"idle", "done"}

\* C36: whenever no operation on job j is in progress, a row that is QUEUED
\* or RETRYING is referenced in the ready or the delayed index.
C36_NoLostJob ==
  \A j \in DOMAIN job :
    (NoOperationOn(j) /\ job[j].status \in {"QUEUED", "RETRYING"})
    => InReadyOrDelayed(j)

\* C38: no job row is PROCESSING with workerId w while the row of worker w
\* has status stopped.
C38_StoppedWorkerOwnsNoJob ==
  \A j \in DOMAIN job : \A w \in DOMAIN worker :
    ~(job[j].status = "PROCESSING" /\ job[j].workerId = w
      /\ worker[w].status = "stopped")

(***************************************************************************)
(* A job in flight whose worker finishes, dies or is shut down             *)
(* (specification StopLiveSpec): the processes of StopSpec, where the     *)
(* worker process may also die without a write, under weak fairness of    *)
(* the worker loop, the shutdown handler, the promoter and the recovery   *)
(* loop of a process that stays up.                                        *)
(***************************************************************************)
\* worker.ts, unhandledRejection: process.exit(1) without Worker.stop; the
\* row of the worker stays active
WCrash(w) ==
  /\ wk[w].pc \notin {"off", "exited"}
  /\ Running(w)
  /\ wk' = [wk EXCEPT ![w].pc = "exited"]
  /\ UNCHANGED <<now, ticks, job, worker, dlqRows, ready, delayed, processing,
                 deadletter, cr, cancelReq, prom, rec, hist, extVars>>

\* time passes until the heartbeat of a dead worker is older than the
\* threshold of the recovery
StaleTick ==
  /\ \E w \in DOMAIN worker :
       /\ Exited(w)
       /\ worker[w].status = "active"
       /\ w \notin findStaleWorkers(staleThresholdMs)
  /\ now' = now + staleThresholdMs + 1
  /\ UNCHANGED <<ticks, job, worker, dlqRows, ready, delayed, processing,
                 deadletter, cr, cancelReq, wk, prom, rec, hist, extVars>>

StopLiveCreate ==
  \/ \E input \in CreateInputs : CreateRow(input)
  \/ \E j \in DOMAIN cr : CreateEnqueue(j)
  \/ \E j \in DOMAIN cr : CreateSetQueued(j)

StopLiveShutdown ==
  \/ \E r \in DOMAIN api : WStopRow(r)
  \/ \E r \in DOMAIN api : WExit(r)

StopLiveWorker ==
  \/ \E w \in DOMAIN wk : WStart(w)
  \/ \E w \in DOMAIN wk : WHeartbeat(w)
  \/ \E w \in DOMAIN wk : WDequeue(w)
  \/ \E w \in DOMAIN wk : WLoad(w)
  \/ \E w \in DOMAIN wk : WSetActive(w)
  \/ \E w \in DOMAIN wk : WSetProcessing(w)
  \/ \E w \in DOMAIN wk : WMarkProcessing(w)
  \/ \E w \in DOMAIN wk : WHandleSuccess(w)
  \/ \E w \in DOMAIN wk : WSuccessMark(w)
  \/ \E w \in DOMAIN wk : WScheduleRetry(w)
  \/ \E w \in DOMAIN wk : WRequeueAdd(w)
  \/ \E w \in DOMAIN wk : WRequeueDel(w)
  \/ \E w \in DOMAIN wk : WHandleFailure(w)
  \/ \E w \in DOMAIN wk : WNoHandler(w)
  \/ \E w \in DOMAIN wk : WDlqAdd(w)
  \/ \E w \in DOMAIN wk : WDlqDel(w)
  \/ \E w \in DOMAIN wk : WDlqRow(w)
  \/ \E w \in DOMAIN wk : WFinish(w)

StopLiveRecovery ==
  \/ \E r \in DOMAIN rec : RecFindStale(r)
  \/ \E r \in DOMAIN rec : RecFindOrphans(r)
  \/ \E r \in DOMAIN rec : RecJobUpdate(r)
  \/ \E r \in DOMAIN rec : RecJobMarkCompleted(r)
  \/ \E r \in DOMAIN rec : RecJobRequeueAdd(r)
  \/ \E r \in DOMAIN rec : RecJobRequeueDel(r)
  \/ \E r \in DOMAIN rec : RecStopWorker(r)

StopLiveClock ==
  \/ \E d \in TickDurations : Tick(d)
  \/ StaleTick

StopLiveNext ==
  \/ StopLiveCreate
  \/ \E r \in DOMAIN api, w \in DOMAIN wk : WSignal(r, w)
  \/ StopLiveShutdown
  \/ StopLiveWorker
  \/ \E w \in DOMAIN wk : WCrash(w)
  \/ LivePromoter
  \/ StopLiveRecovery
  \/ StopLiveClock

StopLiveSpec ==
  /\ StopInit
  /\ [][StopLiveNext]_vars
  /\ WF_vars(StopLiveShutdown)
  /\ WF_vars(StopLiveWorker)
  /\ WF_vars(LivePromoter)
  /\ WF_vars(StopLiveRecovery)
  /\ WF_vars(StopLiveClock)

InProcessing(j) == j \in DOMAIN job /\ job[j].status = "PROCESSING"

\* C37: every job that enters PROCESSING eventually leaves PROCESSING,
\* whether its worker finishes, dies or is shut down while the job is in
\* flight, under weak fairness of the orphan-recovery loop.
C37_ProcessingEnds ==
  \A j \in 1..NJobs : InProcessing(j) ~> ~InProcessing(j)

(***************************************************************************)
(* Two worker processes run their recovery loops over the same stale      *)
(* worker (specification TwoRecoverySpec).  Worker 1 died while job 1 was *)
(* PROCESSING; worker 2 is about to start and its promoter runs; rec[1]   *)
(* and rec[2] are the recovery loops of two processes.  The handler of    *)
(* the job succeeds.  hist is the set of <<jobId, workerId>> that a       *)
(* recovery took from a worker.                                            *)
(***************************************************************************)
TwoRecInit ==
  /\ now = staleThresholdMs + 1
  /\ ticks = 0
  /\ job = [j \in {1} |->
              [NewJobRow(RecoveryInput, 0) EXCEPT !.status = "PROCESSING",
                                                  !.workerId = 1]]
  /\ worker = [w \in {1} |-> NewWorkerRow(0)]
  /\ dlqRows = <<>>
  /\ ready = {}
  /\ delayed = {}
  /\ processing = [j \in {1} |-> [workerId |-> 1, startedAt |-> 0]]
  /\ deadletter = {}
  /\ cr = EmptyFn
  /\ cancelReq = {}
  /\ wk = [w \in {2} |-> WkOff]
  /\ prom = [e \in {1} |-> PromIdle]
  /\ rec = [r \in {1, 2} |-> RecIdle]
  /\ hist = {}
  /\ ExtIdle

TwoRecTick ==
  /\ TickBy(recoveryDelayMs, MaxTwoRecTicks)
  /\ UNCHANGED <<job, worker, dlqRows, ready, delayed, processing,
                 deadletter, cr, cancelReq, wk, prom, rec, hist, extVars>>

TwoRecNext ==
  \/ StopLiveRecovery
  \/ LiveWorker
  \/ LivePromoter
  \/ TwoRecTick

TwoRecoverySpec == TwoRecInit /\ [][TwoRecNext]_vars

\* worker w writes PROCESSING for job j in this step: the handler starts
StartsHandler(w, j) ==
  /\ wk[w].pc = "process"
  /\ wk[w].jobId = j
  /\ wk'[w].pc = "markProcessing"

\* C31: recovery of one stale worker by several recovery loops does not
\* duplicate its job: the retryCount of the orphan job is increased by one
\* in total, the handler is started only once afterwards (never for a job
\* that has already completed), and once no promoter run is in progress a
\* job that has completed is in neither index.
C31_RecoveryIdempotent ==
  /\ [](\A j \in DOMAIN job : job[j].retryCount <= 1)
  /\ [][\A j \in DOMAIN job : \A w \in DOMAIN wk :
          StartsHandler(w, j) => job[j].completedAt = 0]_vars
  /\ [](\A j \in DOMAIN job :
          (/\ job[j].status = "COMPLETED"
           /\ \A e \in DOMAIN prom : prom[e].pc = "idle")
          => ~InReadyOrDelayed(j))

====
